---- MODULE Spec2Model ----
(***************************************************************************)
(* A model of the go-klaviyo client: the query parameter builder           *)
(* (operations/getprofiles), the profile update composer (models/profile,  *)
(* models/profile/updater), the client methods of klaviyo.go, the retrying *)
(* transport they are configured with, and doReq's translation of          *)
(* responses into results and errors.                                      *)
(*                                                                         *)
(* A behaviour is one client call,  idle -> transport -> response -> done:  *)
(*   - a client method (GetProfiles, ..., BulkCreateOrUpdateProfiles)      *)
(*     validates its arguments, builds the request and hands it to         *)
(*     httpClient.Do (doReq up to line 568);                               *)
(*   - RoundTrip is one attempt of the retrying transport: the server's    *)
(*     answer (or a transport error) is an input;                          *)
(*   - DoReqResponse is the rest of doReq (lines 569-614) followed by the  *)
(*     method's return statement: ret is what the caller receives.         *)
(* SpecRoundTrip answers the attempts of UpdateProfile from a server that  *)
(* stores a profile; SpecConcurrent runs CreateEvent in several goroutines *)
(* on one event.                                                           *)
(***************************************************************************)
EXTENDS Integers, Sequences, FiniteSets, TLC

VARIABLES
    client,    \* the Client: its APIKey (fixed at construction)
    event,     \* the caller's *event.NewEvent object, which CreateEvent is given
    ctx,       \* the caller's context.Context, which every method is given
    pc,        \* "idle" | "transport" | "response" | "done" | "crashed"
    call,      \* the client method being run and its arguments
    req,       \* the *http.Request handed to httpClient.Do
    doCalls,   \* number of times the call has invoked httpClient.Do
    attempt,   \* number of requests put on the wire for this call
    only429,   \* history: every attempt so far was answered with HTTP 429
    lastResp,  \* the response of the attempt the retry loop ended with, if any
    unclosed,  \* number of response bodies received and not closed so far
    procs,     \* the goroutines that call CreateEvent concurrently on the event
    server,    \* the profile the server stores, as JSON: [id, attributes], and
               \* (history) held: its attributes before the last PATCH
    doRes,     \* what httpClient.Do returned to doReq: [resp, err]
    ret        \* what the client method returns: [result, err]

vars == <<client, event, ctx, pc, call, req, doCalls, attempt, only429, lastResp, unclosed, procs, server, doRes, ret>>

(***************************************************************************)
(* Bounds of the model.                                                    *)
(***************************************************************************)
\* page sizes tried range over -PageSizeBelow .. maxPageSize + PageSizeAbove
PageSizeBelow == 2
PageSizeAbove == 2
\* longest list of names given to WithFields
MaxFieldNames == 2
\* longest parameter list of a list call
MaxParams == 3
\* longest list of mutation units of an update call
MaxUpdaters == 2
\* bulk batches tried: 0 .. MaxSmallBatch, and around the limit
MaxSmallBatch == 2
BatchAroundLimit == 2
\* goroutines calling concurrently
MaxGoroutines == 2

(***************************************************************************)
(* Program constants.                                                      *)
(***************************************************************************)
restAPIPath == <<"api">>
revision == "2025-04-15"
profileType == "profile"
profilesPath == <<"profiles">>
profileImportPath == <<"profile-import">>
profileBulkImportJobType == "profile-bulk-import-job"
profileBulkImportPath == <<"profile-bulk-import-jobs">>
eventType == "event"
eventsPath == <<"events">>
defaultRetryMax == 4
maxBulkProfiles == 10000
minPageSize == 1
maxPageSize == 100
defaultPageSize == 20
StatusTooManyRequests == 429
StatusConflict == 409
StatusNotFound == 404
StatusUnauthorized == 401

(***************************************************************************)
(* Error values.  Every error is a record with a "type"; wrapping errors   *)
(* hold the error they wrap, so that errors.Is / errors.As walk the chain. *)
(***************************************************************************)
NilError == [type |-> "nil"]
ErrInvalidAPIKey == [type |-> "errorString", s |-> "klaviyo: invalid or missing API key"]
ErrTooManyRequests == [type |-> "errorString", s |-> "klaviyo: too many requests for calling endpoint"]
ErrProfileDoesNotExist == [type |-> "errorString", s |-> "klaviyo: a profile does not exist"]
ErrProfileAlreadyExists(id) == [type |-> "*ErrProfileAlreadyExists", DuplicateProfileID |-> id]
BadHTTPResponseError(statusCode, body, cause) ==
    [type |-> "*BadHTTPResponseError", statusCode |-> statusCode, body |-> body, cause |-> cause]

\* the accessor methods of *BadHTTPResponseError
StatusCode(e) == e.statusCode
Body(e) == e.body
Cause(e) == e.cause
Unwrap(e) == e.cause

\* net/http wraps whatever its RoundTripper returns in a *url.Error
UrlError(e) == [type |-> "*url.Error", Err |-> e]
\* the errors of encoding/json
SyntaxError == [type |-> "*json.SyntaxError"]
UnmarshalTypeError == [type |-> "*json.UnmarshalTypeError"]
\* errors of the connection and of the caller's context
ConnError == [type |-> "*net.OpError"]
ContextCanceled == [type |-> "context.Canceled"]

(***************************************************************************)
(* Paths.  A string holding '/' separators is the sequence of its          *)
(* segments: "profiles/01H8/" is <<"profiles", "01H8", "">>, the empty     *)
(* string is <<"">>.                                                       *)
(***************************************************************************)
RECURSIVE CleanFrom(_, _, _)
\* path.Clean's scan: empty and "." segments vanish, ".." removes the segment
\* before it, is dropped at the root and is kept at the start of a relative path
CleanFrom(rooted, segs, out) ==
    IF segs = <<>> THEN out
    ELSE LET s == Head(segs)
             rest == Tail(segs)
         IN  IF s = "" \/ s = "." THEN CleanFrom(rooted, rest, out)
             ELSE IF s = ".." THEN
                 IF out # <<>> /\ out[Len(out)] # ".."
                 THEN CleanFrom(rooted, rest, SubSeq(out, 1, Len(out) - 1))
                 ELSE IF rooted THEN CleanFrom(rooted, rest, out)
                 ELSE CleanFrom(rooted, rest, Append(out, ".."))
             ELSE CleanFrom(rooted, rest, Append(out, s))

\* path.Join(a, b) of two relative paths, as UpdateProfile calls it
PathJoin(a, b) ==
    LET out == CleanFrom(FALSE, a \o b, <<>>)
    IN  IF out = <<>> THEN <<".">> ELSE out

\* doReq: uri.Path = path.Join(uri.Path, endpoint), with uri.Path = "/api";
\* the result is a rooted path, held as its segments
RequestPath(endpoint) == CleanFrom(TRUE, restAPIPath \o endpoint, <<>>)

(***************************************************************************)
(* Query parameters (operations/getprofiles).  url.Values maps a key to    *)
(* its list of values.                                                     *)
(***************************************************************************)
EmptyValues == [k \in {} |-> <<>>]

\* url.Values.Add in the place of Set: the value joins the key's list
ValuesSet_Append(fields, key, value) ==
    [k \in (DOMAIN fields) \cup {key} |->
        IF k = key THEN (IF k \in DOMAIN fields THEN fields[k] ELSE <<>>) \o <<value>> ELSE fields[k]]

\* url.Values.Set: the key's list becomes the single value
ValuesSet(fields, key, value) ==
    [k \in (DOMAIN fields) \cup {key} |-> IF k = key THEN <<value>> ELSE fields[k]]

\* the keys the parameters write, in the byte order url.Values.Encode sorts by
QueryKeyOrder == <<"fields[profile]", "page[size]">>

RECURSIVE EncodeFrom(_, _)
EncodeFrom(fields, keys) ==
    IF keys = <<>> THEN <<>>
    ELSE LET k == Head(keys)
             here == IF k \in DOMAIN fields
                     THEN [i \in 1..Len(fields[k]) |-> [key |-> k, value |-> fields[k][i]]]
                     ELSE <<>>
         IN  here \o EncodeFrom(fields, Tail(keys))

\* url.Values.Encode: the key=value pairs sorted by key (percent-escaping,
\* which is injective, is left out: a pair is held as a record)
Encode(fields) == EncodeFrom(fields, QueryKeyOrder)

Digit(d) ==
    CASE d = 0 -> "0" [] d = 1 -> "1" [] d = 2 -> "2" [] d = 3 -> "3" [] d = 4 -> "4"
      [] d = 5 -> "5" [] d = 6 -> "6" [] d = 7 -> "7" [] d = 8 -> "8" [] d = 9 -> "9"

RECURSIVE ItoaNat(_)
ItoaNat(n) == IF n < 10 THEN Digit(n) ELSE ItoaNat(n \div 10) \o Digit(n % 10)

\* strconv.Itoa
Itoa(n) == IF n < 0 THEN "-" \o ItoaNat(0 - n) ELSE ItoaNat(n)

RECURSIVE Join(_, _)
\* strings.Join
Join(elems, sep) ==
    IF elems = <<>> THEN ""
    ELSE IF Len(elems) = 1 THEN elems[1]
    ELSE elems[1] \o sep \o Join(Tail(elems), sep)

\* WithPageSize without its upper clamp
WithPageSize_NoUpperClamp(pageSize) ==
    [fn |-> "WithPageSize",
     pageSize |-> IF pageSize < minPageSize THEN minPageSize ELSE pageSize,
     fieldName |-> <<>>]

\* WithPageSize clamps when the parameter is built; the closure holds the
\* clamped size
WithPageSize(pageSize) ==
    LET clamped == IF pageSize < minPageSize THEN minPageSize
                   ELSE IF pageSize > maxPageSize THEN maxPageSize
                   ELSE pageSize
    IN  [fn |-> "WithPageSize", pageSize |-> clamped, fieldName |-> <<>>]

\* WithDefaultPageSize handing on the wrong constant
WithDefaultPageSize_Min == WithPageSize(minPageSize)

WithDefaultPageSize == WithPageSize(defaultPageSize)

WithFields(fieldName) == [fn |-> "WithFields", pageSize |-> 0, fieldName |-> fieldName]

\* the closures without WithFields' test for an empty joined value
ApplyParam_AlwaysSet(p, fields) ==
    IF p.fn = "WithPageSize"
    THEN ValuesSet(fields, "page[size]", Itoa(p.pageSize))
    ELSE ValuesSet(fields, "fields[profile]", Join(p.fieldName, ","))

\* FieldsUpdaterFunc.Apply: run the closure on the query collection
ApplyParam(p, fields) ==
    IF p.fn = "WithPageSize"
    THEN ValuesSet(fields, "page[size]", Itoa(p.pageSize))
    ELSE LET names == Join(p.fieldName, ",")
         IN  IF names # "" THEN ValuesSet(fields, "fields[profile]", names) ELSE fields

RECURSIVE ApplyParams(_, _)
\* for _, p := range params { p.Apply(fields) }
ApplyParams(params, fields) ==
    IF params = <<>> THEN fields
    ELSE ApplyParams(Tail(params), ApplyParam(Head(params), fields))


(***************************************************************************)
(* The update composer (models/profile, models/profile/updater).  A map    *)
(* with string keys is a function on the set of its keys.  An attribute    *)
(* value is a string or a nested map.                                      *)
(***************************************************************************)
EmptyMap == [k \in {} |-> ""]
MapSet(m, key, value) == [k \in (DOMAIN m) \cup {key} |-> IF k = key THEN value ELSE m[k]]
StringValue(v) == [kind |-> "string", s |-> v]
ObjectValue(m) == [kind |-> "object", m |-> m]

\* NewProfileData starting from a zero-valued attribute instead of an empty map
NewProfileData_Prefilled ==
    [Attributes |-> MapSet(EmptyMap, "email", StringValue("")), PropertiesToRemove |-> <<>>]

\* NewProfileData: an empty attributes map and a nil list of names to remove
NewProfileData == [Attributes |-> EmptyMap, PropertiesToRemove |-> <<>>]

\* The mutation units.  A unit is the closure its constructor returns: the
\* constructor's name and the values it captured.
WithEmail(email) == [fn |-> "WithEmail", key |-> "email", v |-> email, subs |-> <<>>]
WithPhoneNumber(phoneNumber) == [fn |-> "WithPhoneNumber", key |-> "phone_number", v |-> phoneNumber, subs |-> <<>>]
WithExternalId(externalId) == [fn |-> "WithExternalId", key |-> "external_id", v |-> externalId, subs |-> <<>>]
WithAnonymousId(anonymousId) == [fn |-> "WithAnonymousId", key |-> "anonymous_id", v |-> anonymousId, subs |-> <<>>]
WithFirstName(firstName) == [fn |-> "WithFirstName", key |-> "first_name", v |-> firstName, subs |-> <<>>]
WithLastName(lastName) == [fn |-> "WithLastName", key |-> "last_name", v |-> lastName, subs |-> <<>>]
WithOrganization(organization) == [fn |-> "WithOrganization", key |-> "organization", v |-> organization, subs |-> <<>>]
WithTitle(title) == [fn |-> "WithTitle", key |-> "title", v |-> title, subs |-> <<>>]
WithImage(image) == [fn |-> "WithImage", key |-> "image", v |-> image, subs |-> <<>>]
WithLocation(updaters) == [fn |-> "WithLocation", key |-> "location", v |-> "", subs |-> updaters]
WithProperties(updaters) == [fn |-> "WithProperties", key |-> "properties", v |-> "", subs |-> updaters]
\* profile.UnsetProperties(names...): appends the names to PropertiesToRemove
UnsetProperties(names) == [fn |-> "UnsetProperties", key |-> "", v |-> "", subs |-> names]

\* a location or properties sub-unit: location.WithCity(v), property.WithValue(name, v), ...
WithValue(name, value) == [key |-> name, v |-> value]

RECURSIVE ApplySubs(_, _)
\* for _, u := range updaters { u.Apply(m) }, each u setting m[u.key] = u.v
ApplySubs(updaters, m) ==
    IF updaters = <<>> THEN m
    ELSE ApplySubs(Tail(updaters), MapSet(m, Head(updaters).key, Head(updaters).v))

\* an unset unit that also takes its names out of the properties set so far
ApplyProfile_UnsetCancelsSet(u, profileData) ==
    CASE u.fn = "UnsetProperties" ->
            [profileData EXCEPT
                !.PropertiesToRemove = @ \o u.subs,
                !.Attributes =
                    IF "properties" \in DOMAIN @
                    THEN MapSet(@, "properties",
                                ObjectValue([k \in DOMAIN @["properties"].m
                                                    \ {u.subs[i] : i \in 1..Len(u.subs)} |->
                                                @["properties"].m[k]]))
                    ELSE @]
      [] u.fn \in {"WithLocation", "WithProperties"} ->
            [profileData EXCEPT !.Attributes = MapSet(@, u.key, ObjectValue(ApplySubs(u.subs, EmptyMap)))]
      [] OTHER ->
            [profileData EXCEPT !.Attributes = MapSet(@, u.key, StringValue(u.v))]

\* units that merge their nested mapping into the one already there
ApplyProfile_MergesNested(u, profileData) ==
    CASE u.fn = "UnsetProperties" ->
            [profileData EXCEPT !.PropertiesToRemove = @ \o u.subs]
      [] u.fn \in {"WithLocation", "WithProperties"} ->
            [profileData EXCEPT !.Attributes =
                MapSet(@, u.key,
                       ObjectValue(ApplySubs(u.subs, IF u.key \in DOMAIN @ THEN @[u.key].m ELSE EmptyMap)))]
      [] OTHER ->
            [profileData EXCEPT !.Attributes = MapSet(@, u.key, StringValue(u.v))]

\* ProfileFunc.Apply: run the unit on the accumulator
ApplyProfile(u, profileData) ==
    CASE u.fn = "UnsetProperties" ->
            [profileData EXCEPT !.PropertiesToRemove = @ \o u.subs]
      [] u.fn \in {"WithLocation", "WithProperties"} ->
            [profileData EXCEPT !.Attributes = MapSet(@, u.key, ObjectValue(ApplySubs(u.subs, EmptyMap)))]
      [] OTHER ->
            [profileData EXCEPT !.Attributes = MapSet(@, u.key, StringValue(u.v))]

RECURSIVE ApplyUpdaters(_, _)
\* for _, u := range updaters { u.Apply(profileData) }
ApplyUpdaters(updaters, profileData) ==
    IF updaters = <<>> THEN profileData
    ELSE ApplyUpdaters(Tail(updaters), ApplyProfile(Head(updaters), profileData))

(***************************************************************************)
(* NewProfile.ToUpdaters.  A *NewProfile is nil or holds Email, the        *)
(* optional scalar fields that are not nil (Pointers, by JSON name), the   *)
(* location fields that are not nil, and the properties map; order is the  *)
(* order in which this run's range over the properties map yields its keys.*)
(***************************************************************************)
\* ToUpdaters emitting the email unit for an empty email too
ToUpdaters_EmailAlways(p, order) ==
    IF p.isNil THEN <<>>
    ELSE LET pointers == <<"phone_number", "external_id", "anonymous_id", "first_name",
                           "last_name", "organization", "title", "image">>
             unit(k, v) ==
                 CASE k = "phone_number" -> WithPhoneNumber(v)
                   [] k = "external_id" -> WithExternalId(v)
                   [] k = "anonymous_id" -> WithAnonymousId(v)
                   [] k = "first_name" -> WithFirstName(v)
                   [] k = "last_name" -> WithLastName(v)
                   [] k = "organization" -> WithOrganization(v)
                   [] k = "title" -> WithTitle(v)
                   [] OTHER -> WithImage(v)
             fields == <<"address1", "address2", "city", "country", "latitude",
                         "longitude", "region", "zip", "timezone">>
             set == SelectSeq(pointers, LAMBDA k : k \in DOMAIN p.Pointers)
             located == SelectSeq(fields, LAMBDA k : k \in DOMAIN p.Location)
             locationUpdaters == [i \in 1..Len(located) |-> WithValue(located[i], p.Location[located[i]])]
             propertiesUpdaters == [i \in 1..Len(order) |-> WithValue(order[i], p.Properties[order[i]])]
         IN  (IF TRUE THEN <<WithEmail(p.Email)>> ELSE <<>>)
             \o [i \in 1..Len(set) |-> unit(set[i], p.Pointers[set[i]])]
             \o (IF Len(locationUpdaters) > 0 THEN <<WithLocation(locationUpdaters)>> ELSE <<>>)
             \o (IF Len(propertiesUpdaters) > 0 THEN <<WithProperties(propertiesUpdaters)>> ELSE <<>>)

ToUpdaters(p, order) ==
    IF p.isNil THEN <<>>
    ELSE LET pointers == <<"phone_number", "external_id", "anonymous_id", "first_name",
                           "last_name", "organization", "title", "image">>
             unit(k, v) ==
                 CASE k = "phone_number" -> WithPhoneNumber(v)
                   [] k = "external_id" -> WithExternalId(v)
                   [] k = "anonymous_id" -> WithAnonymousId(v)
                   [] k = "first_name" -> WithFirstName(v)
                   [] k = "last_name" -> WithLastName(v)
                   [] k = "organization" -> WithOrganization(v)
                   [] k = "title" -> WithTitle(v)
                   [] OTHER -> WithImage(v)
             fields == <<"address1", "address2", "city", "country", "latitude",
                         "longitude", "region", "zip", "timezone">>
             set == SelectSeq(pointers, LAMBDA k : k \in DOMAIN p.Pointers)
             located == SelectSeq(fields, LAMBDA k : k \in DOMAIN p.Location)
             locationUpdaters == [i \in 1..Len(located) |-> WithValue(located[i], p.Location[located[i]])]
             propertiesUpdaters == [i \in 1..Len(order) |-> WithValue(order[i], p.Properties[order[i]])]
         IN  (IF p.Email # "" THEN <<WithEmail(p.Email)>> ELSE <<>>)
             \o [i \in 1..Len(set) |-> unit(set[i], p.Pointers[set[i]])]
             \o (IF Len(locationUpdaters) > 0 THEN <<WithLocation(locationUpdaters)>> ELSE <<>>)
             \o (IF Len(propertiesUpdaters) > 0 THEN <<WithProperties(propertiesUpdaters)>> ELSE <<>>)

\* the orders a range over a map with key set S can take
Orders(S) == {o \in [1..Cardinality(S) -> S] : \A i, j \in 1..Cardinality(S) : o[i] = o[j] => i = j}

\* an update payload that carries a meta member even for no names
UpdateMeta_AlwaysPresent(propertiesToRemove) == [present |-> TRUE, unset |-> propertiesToRemove]

\* an update payload that never carries the names to remove
UpdateMeta_NeverPresent(propertiesToRemove) == [present |-> FALSE, unset |-> <<>>]

\* the meta member of an update payload: nil unless names are to be removed.
\* A nil map is the empty map with present = FALSE (omitempty drops it).
UpdateMeta(propertiesToRemove) ==
    IF Len(propertiesToRemove) > 0
    THEN [present |-> TRUE, unset |-> propertiesToRemove]
    ELSE [present |-> FALSE, unset |-> <<>>]


(***************************************************************************)
(* encoding/json on the values of the nested maps.  A Go string is held as *)
(* its text; a number is held as its Go type and its value, and a JSON     *)
(* number as Number("json", n).                                            *)
(***************************************************************************)
Number(type, n) == type \o " " \o Itoa(n)
\* the numbers callers and servers use here
Numerals == {24, 56, 1500}

\* json.Marshal of a map value: an int and a float64 whose value is whole are
\* written as the same JSON number; a string is written as a JSON string
MarshalValue(v) ==
    IF \E n \in Numerals : v \in {Number("int", n), Number("float64", n)}
    THEN Number("json", CHOOSE n \in Numerals : v \in {Number("int", n), Number("float64", n)})
    ELSE v

\* json.Unmarshal into an interface{} or a *float64: a JSON number becomes a
\* float64, a JSON string a string
UnmarshalValue(j) ==
    IF \E n \in Numerals : j = Number("json", n)
    THEN Number("float64", CHOOSE n \in Numerals : j = Number("json", n))
    ELSE j

\* json.Marshal of an attributes map, and json.Unmarshal of an attributes
\* object into ExistingAttributes (Email is a string, "" when absent)
MarshalAttributes(attributes) ==
    [k \in DOMAIN attributes |->
        IF attributes[k].kind = "object"
        THEN ObjectValue([j \in DOMAIN attributes[k].m |-> MarshalValue(attributes[k].m[j])])
        ELSE attributes[k]]

UnmarshalAttributes(object) ==
    [k \in (DOMAIN object) \cup {"email"} |->
        IF k \notin DOMAIN object THEN StringValue("")
        ELSE IF object[k].kind = "object"
        THEN ObjectValue([j \in DOMAIN object[k].m |-> UnmarshalValue(object[k].m[j])])
        ELSE object[k]]

(***************************************************************************)
(* Responses.  A body is the bytes the server sent, held by what they      *)
(* parse to: text that is no JSON, or a JSON object with an "errors"       *)
(* member (a list of error objects, possibly null ones; errorsOK = FALSE   *)
(* when a member has the wrong JSON type) and a "data" member ("absent",   *)
(* "mistyped", the token of a well-typed value, or "profile" with the      *)
(* profile object in the body's profile field).                            *)
(***************************************************************************)
\* a body whose read ends in an error before its end
BrokenBody == [kind |-> "broken", raw |-> "", errorsOK |-> FALSE, errors |-> <<>>, data |-> "absent"]
\* the error io.ReadAll returns on it
ReadError == [type |-> "*errors.errorString", s |-> "unexpected EOF"]
PlainText(raw) == [kind |-> "text", raw |-> raw, errorsOK |-> TRUE, errors |-> <<>>, data |-> "absent"]
JSONBody(errorsOK, errors, data) == [kind |-> "json", raw |-> "", errorsOK |-> errorsOK, errors |-> errors, data |-> data]
ErrorObject(status, code, dup) == [isNil |-> FALSE, Status |-> status, Code |-> code, DuplicateProfileID |-> dup]
NullErrorObject == [isNil |-> TRUE, Status |-> 0, Code |-> "", DuplicateProfileID |-> ""]

Response(statusCode, body) == [isNil |-> FALSE, StatusCode |-> statusCode, Body |-> body]
NilResponse == [isNil |-> TRUE, StatusCode |-> 0, Body |-> PlainText("")]

\* an *APIError value; a null element of the errors list decodes to a nil pointer
APIError(isNil, status, code, title, detail, dup) ==
    [type |-> "*APIError", isNil |-> isNil, Status |-> status, Code |-> code,
     Title |-> title, Detail |-> detail, DuplicateProfileID |-> dup]

\* a nil-pointer dereference: the goroutine panics instead of returning
Panic == [type |-> "panic", s |-> "invalid memory address or nil pointer dereference"]

\* json.Unmarshal(body, &errs) with errs struct{ Errors []*APIError }
UnmarshalErrors(body) ==
    IF body.kind # "json" THEN [err |-> SyntaxError, Errors |-> <<>>]
    ELSE IF ~body.errorsOK THEN [err |-> UnmarshalTypeError, Errors |-> <<>>]
    ELSE [err |-> NilError,
          Errors |-> [i \in 1..Len(body.errors) |->
                        LET o == body.errors[i]
                        IN  APIError(o.isNil, o.Status, o.Code, "", PlainText(""), o.DuplicateProfileID)]]

\* json.Unmarshal(body, result) with result struct{ Data ... }; a data member
\* that is a profile object (body.profile) decodes into an ExistingProfile
UnmarshalResult(body) ==
    IF body.kind # "json" THEN [err |-> SyntaxError, Data |-> "absent"]
    ELSE IF body.data = "mistyped" THEN [err |-> UnmarshalTypeError, Data |-> "absent"]
    ELSE IF body.data = "profile"
    THEN [err |-> NilError,
          Data |-> [Id |-> body.profile.id, Attributes |-> UnmarshalAttributes(body.profile.attributes)]]
    ELSE [err |-> NilError, Data |-> body.data]

\* an Unwrap that hands on the first error only
MultiErrorUnwrap_FirstOnly(errs) == errs[1]

\* multierror.Error.Unwrap: the error itself when there is one, else a chain
MultiErrorUnwrap(errs) ==
    IF Len(errs) = 1 THEN errs[1] ELSE [type |-> "multierror.chain", errs |-> errs]

RECURSIVE ErrorsIs(_, _)
\* errors.Is: identity with the target somewhere along the unwrap chain
ErrorsIs(err, target) ==
    IF err.type = "nil" THEN FALSE
    ELSE IF err.type = target.type /\ err = target THEN TRUE
    ELSE CASE err.type = "*url.Error" -> ErrorsIs(err.Err, target)
           [] err.type = "*BadHTTPResponseError" -> ErrorsIs(err.cause, target)
           [] err.type = "multierror.chain" ->
                \E i \in 1..Len(err.errs) : ErrorsIs(err.errs[i], target)
           [] OTHER -> FALSE

RECURSIVE ErrorsAs(_, _)
\* errors.As: the first error along the chain whose type is the target's;
\* [ok, e]
ErrorsAs(err, targetType) ==
    IF err.type = "nil" THEN [ok |-> FALSE, e |-> NilError]
    ELSE IF err.type = targetType THEN [ok |-> TRUE, e |-> err]
    ELSE CASE err.type = "*url.Error" -> ErrorsAs(err.Err, targetType)
           [] err.type = "*BadHTTPResponseError" -> ErrorsAs(err.cause, targetType)
           [] err.type = "multierror.chain" ->
                LET first == ErrorsAs(err.errs[1], targetType)
                IN  IF first.ok \/ Len(err.errs) = 1 THEN first
                    ELSE ErrorsAs([type |-> "multierror.chain", errs |-> Tail(err.errs)], targetType)
           [] OTHER -> [ok |-> FALSE, e |-> NilError]

\* wrapAPIError forgetting the duplicate's id
wrapAPIError_DropsID(err) ==
    LET as == ErrorsAs(err, "*APIError")
        apiErr == as.e
    IN  IF ~as.ok THEN err
        ELSE IF apiErr.isNil THEN Panic
        ELSE IF apiErr.Status = StatusConflict /\ apiErr.Code = "duplicate_profile"
             THEN ErrProfileAlreadyExists("")
        ELSE IF apiErr.Status = StatusNotFound /\ apiErr.Code = "not_found"
             THEN ErrProfileDoesNotExist
        ELSE IF apiErr.Status = StatusUnauthorized
                /\ (apiErr.Code = "not_authenticated" \/ apiErr.Code = "authentication_failed")
             THEN ErrInvalidAPIKey
        ELSE err

\* wrapAPIError without its not-found case
wrapAPIError_NoNotFound(err) ==
    LET as == ErrorsAs(err, "*APIError")
        apiErr == as.e
    IN  IF ~as.ok THEN err
        ELSE IF apiErr.isNil THEN Panic
        ELSE IF apiErr.Status = StatusConflict /\ apiErr.Code = "duplicate_profile"
             THEN ErrProfileAlreadyExists(apiErr.DuplicateProfileID)
        ELSE IF apiErr.Status = StatusUnauthorized
                /\ (apiErr.Code = "not_authenticated" \/ apiErr.Code = "authentication_failed")
             THEN ErrInvalidAPIKey
        ELSE err

\* wrapAPIError knowing one of the two authentication codes only
wrapAPIError_OneAuthCode(err) ==
    LET as == ErrorsAs(err, "*APIError")
        apiErr == as.e
    IN  IF ~as.ok THEN err
        ELSE IF apiErr.isNil THEN Panic
        ELSE IF apiErr.Status = StatusConflict /\ apiErr.Code = "duplicate_profile"
             THEN ErrProfileAlreadyExists(apiErr.DuplicateProfileID)
        ELSE IF apiErr.Status = StatusNotFound /\ apiErr.Code = "not_found"
             THEN ErrProfileDoesNotExist
        ELSE IF apiErr.Status = StatusUnauthorized /\ apiErr.Code = "not_authenticated"
             THEN ErrInvalidAPIKey
        ELSE err

\* wrapAPIError: the semantic error the first *APIError of the chain stands for
wrapAPIError(err) ==
    LET as == ErrorsAs(err, "*APIError")
        apiErr == as.e
    IN  IF ~as.ok THEN err
        ELSE IF apiErr.isNil THEN Panic
        ELSE IF apiErr.Status = StatusConflict /\ apiErr.Code = "duplicate_profile"
             THEN ErrProfileAlreadyExists(apiErr.DuplicateProfileID)
        ELSE IF apiErr.Status = StatusNotFound /\ apiErr.Code = "not_found"
             THEN ErrProfileDoesNotExist
        ELSE IF apiErr.Status = StatusUnauthorized
                /\ (apiErr.Code = "not_authenticated" \/ apiErr.Code = "authentication_failed")
             THEN ErrInvalidAPIKey
        ELSE err

\* an ErrorHandler that hands the response on whatever its status
errorHandler_PassThrough(resp, err) == [resp |-> resp, err |-> err]

\* errorHandler, the transport's ErrorHandler hook: [resp, err]
errorHandler(resp, err) ==
    IF err.type # "nil" THEN [resp |-> resp, err |-> err]
    ELSE IF resp.StatusCode = StatusTooManyRequests THEN [resp |-> resp, err |-> ErrTooManyRequests]
    ELSE [resp |-> resp, err |-> err]


(***************************************************************************)
(* The transport: retryablehttp.Client as NewWithClient configures it      *)
(* (RetryMax = defaultRetryMax, CheckRetry = DefaultRetryPolicy,           *)
(* ErrorHandler = errorHandler), behind net/http's Client.                 *)
(***************************************************************************)
\* DefaultRetryPolicy: a done context is never retried; a transport error, a
\* 429, a status 0 and a 5xx other than 501 are
CheckRetry(resp, err) ==
    IF ErrorsIs(err, ContextCanceled) THEN [shouldRetry |-> FALSE, checkErr |-> ContextCanceled]
    ELSE IF err.type # "nil" THEN [shouldRetry |-> TRUE, checkErr |-> NilError]
    ELSE IF resp.StatusCode = StatusTooManyRequests THEN [shouldRetry |-> TRUE, checkErr |-> NilError]
    ELSE IF resp.StatusCode = 0 \/ (resp.StatusCode >= 500 /\ resp.StatusCode # 501)
         THEN [shouldRetry |-> TRUE, checkErr |-> NilError]
    ELSE [shouldRetry |-> FALSE, checkErr |-> NilError]

\* What httpClient.Do returns once the retry loop has ended with the attempt's
\* (resp, doErr): a response that needs no retry is returned as it is, anything
\* else goes through the ErrorHandler; the RoundTripper unwraps a *url.Error, and
\* net/http drops the response and wraps the error when the error is not nil.
TransportResult(resp, doErr) ==
    LET check == CheckRetry(resp, doErr)
        err == IF check.checkErr.type # "nil" THEN check.checkErr ELSE doErr
        handled == IF doErr.type = "nil" /\ check.checkErr.type = "nil" /\ ~check.shouldRetry
                   THEN [resp |-> resp, err |-> NilError]
                   ELSE errorHandler(resp, err)
        inner == IF handled.err.type = "*url.Error" THEN handled.err.Err ELSE handled.err
    IN  IF inner.type = "nil" THEN [resp |-> handled.resp, err |-> NilError]
        ELSE [resp |-> NilResponse, err |-> UrlError(inner)]

(***************************************************************************)
(* doReq.                                                                  *)
(***************************************************************************)
\* the headers with the content-type set whatever the method
RequestHeader_ContentTypeAlways(method) ==
    [k \in {"Authorization", "Accept", "Revision", "Content-Type"} |->
        CASE k = "Authorization" -> "Klaviyo-API-Key " \o client.APIKey
          [] k = "Revision" -> revision
          [] OTHER -> "application/json"]

\* setCommonHeaders, and the content-type of the writing methods
RequestHeader(method) ==
    LET common == [Authorization |-> "Klaviyo-API-Key " \o client.APIKey,
                   Accept |-> "application/json",
                   Revision |-> revision]
    IN  IF method \in {"POST", "PATCH", "PUT"}
        THEN [k \in (DOMAIN common) \cup {"Content-Type"} |->
                IF k = "Content-Type" THEN "application/json" ELSE common[k]]
        ELSE common

\* a property value json.Marshal has no encoding for (math.Inf(1), a channel)
JSONUnsupported == "+Inf"
\* the error json.Marshal returns on it
MarshalError == [type |-> "*json.UnsupportedValueError", s |-> "json: unsupported value: +Inf"]
\* a json.Marshal that encodes every value
MarshalFails_Never(attributes) == FALSE

\* json.Marshal(bodyData) of doReq, lines 550-554, on an attributes map: it
\* fails when a nested object holds an unsupported value
MarshalFails(attributes) ==
    \E k \in DOMAIN attributes :
        /\ attributes[k].kind = "object"
        /\ \E j \in DOMAIN attributes[k].m : attributes[k].m[j] = JSONUnsupported

NoBody == [present |-> FALSE]
JSONRequestBody(bodyData) == [present |-> TRUE, json |-> bodyData]
NoRequest ==
    [Context |-> "", Method |-> "", Path |-> <<>>, RawQuery |-> <<>>, Header |-> EmptyMap, Body |-> NoBody]

\* doReq building its request without the context it was given
NewRequest_Background(method, endpoint, fields, body) ==
    [Context |-> "context.Background()",
     Method |-> method,
     Path |-> RequestPath(endpoint),
     RawQuery |-> Encode(fields),
     Header |-> RequestHeader(method),
     Body |-> body]

\* doReq, lines 543-566: the request handed to httpClient.Do, built by
\* http.NewRequestWithContext(ctx, ...)
NewRequest(method, endpoint, fields, body) ==
    [Context |-> ctx,
     Method |-> method,
     Path |-> RequestPath(endpoint),
     RawQuery |-> Encode(fields),
     Header |-> RequestHeader(method),
     Body |-> body]

\* doReq reporting a body without error objects as one it could not parse
doReqResult_EmptyIsBadResponse(res, hasResult) ==
    IF res.err.type # "nil" THEN [err |-> res.err, Data |-> "absent"]
    ELSE LET statusCode == res.resp.StatusCode
             body == res.resp.Body
         IN  IF body.kind = "broken" THEN [err |-> ReadError, Data |-> "absent"]
             ELSE IF statusCode < 200 \/ statusCode >= 300
             THEN LET errs == UnmarshalErrors(body)
                  IN  IF errs.err.type # "nil" \/ Len(errs.Errors) = 0
                      THEN [err |-> BadHTTPResponseError(statusCode, body, errs.err), Data |-> "absent"]
                      ELSE [err |-> wrapAPIError(MultiErrorUnwrap(errs.Errors)), Data |-> "absent"]
             ELSE IF hasResult THEN UnmarshalResult(body)
             ELSE [err |-> NilError, Data |-> "absent"]

\* doReq building its bad-response error without the body it read
doReqResult_DropsBody(res, hasResult) ==
    IF res.err.type # "nil" THEN [err |-> res.err, Data |-> "absent"]
    ELSE LET statusCode == res.resp.StatusCode
             body == res.resp.Body
         IN  IF body.kind = "broken" THEN [err |-> ReadError, Data |-> "absent"]
             ELSE IF statusCode < 200 \/ statusCode >= 300
             THEN LET errs == UnmarshalErrors(body)
                  IN  IF errs.err.type # "nil"
                      THEN [err |-> BadHTTPResponseError(statusCode, PlainText(""), errs.err), Data |-> "absent"]
                      ELSE IF Len(errs.Errors) = 0
                      THEN [err |-> APIError(FALSE, statusCode, "", "Bad HTTP status", body, ""),
                            Data |-> "absent"]
                      ELSE [err |-> wrapAPIError(MultiErrorUnwrap(errs.Errors)), Data |-> "absent"]
             ELSE IF hasResult THEN UnmarshalResult(body)
             ELSE [err |-> NilError, Data |-> "absent"]

\* doReq taking 300 for a success
doReqResult_SuccessUpTo300(res, hasResult) ==
    IF res.err.type # "nil" THEN [err |-> res.err, Data |-> "absent"]
    ELSE LET statusCode == res.resp.StatusCode
             body == res.resp.Body
         IN  IF body.kind = "broken" THEN [err |-> ReadError, Data |-> "absent"]
             ELSE IF statusCode < 200 \/ statusCode > 300
             THEN LET errs == UnmarshalErrors(body)
                  IN  IF errs.err.type # "nil"
                      THEN [err |-> BadHTTPResponseError(statusCode, body, errs.err), Data |-> "absent"]
                      ELSE IF Len(errs.Errors) = 0
                      THEN [err |-> APIError(FALSE, statusCode, "", "Bad HTTP status", body, ""),
                            Data |-> "absent"]
                      ELSE [err |-> wrapAPIError(MultiErrorUnwrap(errs.Errors)), Data |-> "absent"]
             ELSE IF hasResult THEN UnmarshalResult(body)
             ELSE [err |-> NilError, Data |-> "absent"]

\* doReq, lines 568-614, given what httpClient.Do returned: the error doReq
\* returns and the value decoded into result; [err, Data]
doReqResult(res, hasResult) ==
    IF res.err.type # "nil" THEN [err |-> res.err, Data |-> "absent"]
    ELSE LET statusCode == res.resp.StatusCode
             body == res.resp.Body
         IN  IF body.kind = "broken" THEN [err |-> ReadError, Data |-> "absent"]
             ELSE IF statusCode < 200 \/ statusCode >= 300
             THEN LET errs == UnmarshalErrors(body)
                  IN  IF errs.err.type # "nil"
                      THEN [err |-> BadHTTPResponseError(statusCode, body, errs.err), Data |-> "absent"]
                      ELSE IF Len(errs.Errors) = 0
                      THEN [err |-> APIError(FALSE, statusCode, "", "Bad HTTP status", body, ""),
                            Data |-> "absent"]
                      ELSE [err |-> wrapAPIError(MultiErrorUnwrap(errs.Errors)), Data |-> "absent"]
             ELSE IF hasResult THEN UnmarshalResult(body)
             ELSE [err |-> NilError, Data |-> "absent"]

(***************************************************************************)
(* The client methods' results.                                            *)
(***************************************************************************)
NilResult == [kind |-> "nil", data |-> ""]
SliceResult(data) == [kind |-> "slice", data |-> data]
PointerResult(data) == [kind |-> "pointer", data |-> data]
StringResult(data) == [kind |-> "string", data |-> data]
NoResult == [kind |-> "none", data |-> ""]

ListMethods == {"GetProfiles", "GetEvents"}
PointerMethods == {"CreateProfile", "GetProfile", "UpdateProfile", "CreateOrUpdateProfile"}
Methods == ListMethods \cup PointerMethods \cup {"BulkCreateOrUpdateProfiles", "CreateEvent"}

\* what a method returns beside a non-nil error
FailureResult(method) ==
    CASE method \in ListMethods \cup PointerMethods -> NilResult
      [] method = "BulkCreateOrUpdateProfiles" -> StringResult("")
      [] OTHER -> NoResult

\* what a method returns beside a nil error, from the decoded Data member
SuccessResult(method, data) ==
    CASE method \in ListMethods -> IF data = "absent" THEN NilResult ELSE SliceResult(data)
      [] method \in PointerMethods -> PointerResult(data)
      [] method = "BulkCreateOrUpdateProfiles" -> StringResult(IF data = "absent" THEN "" ELSE data)
      [] OTHER -> NoResult

\* the return statements after c.doReq in each method; [result, err]
MethodReturn(method, res) ==
    IF res.err.type # "nil"
    THEN [result |-> FailureResult(method), err |-> res.err]
    ELSE [result |-> SuccessResult(method, res.Data), err |-> NilError]


(***************************************************************************)
(* The client methods.  Each builds its request and, unless it fails       *)
(* before, hands it to httpClient.Do.                                      *)
(***************************************************************************)
NoCall == [method |-> "none"]
NoDoResult == [resp |-> NilResponse, err |-> NilError]
NoReturn == [result |-> NoResult, err |-> NilError]

\* c.httpClient.Do(req) is entered: the transport owns the call from here
Do(c, r) ==
    /\ pc' = "transport"
    /\ call' = c
    /\ req' = r
    /\ doCalls' = doCalls + 1
    /\ attempt' = 0
    /\ only429' = TRUE
    /\ lastResp' = NilResponse
    /\ unclosed' = unclosed
    /\ procs' = procs
    /\ server' = server
    /\ ctx' = ctx
    /\ doRes' = NoDoResult
    /\ ret' = NoReturn

\* the method returns without any request having been built
ReturnEarly(c, result, err) ==
    /\ pc' = "done"
    /\ call' = c
    /\ req' = NoRequest
    /\ doCalls' = doCalls
    /\ attempt' = 0
    /\ only429' = TRUE
    /\ lastResp' = NilResponse
    /\ unclosed' = unclosed
    /\ procs' = procs
    /\ server' = server
    /\ ctx' = ctx
    /\ doRes' = NoDoResult
    /\ ret' = [result |-> result, err |-> err]

\* a parameter as the caller writes it, and the Param it evaluates to
PageSizeArg(p) == [fn |-> "WithPageSize", pageSize |-> p, fieldName |-> <<>>]
DefaultPageSizeArg == [fn |-> "WithDefaultPageSize", pageSize |-> 0, fieldName |-> <<>>]
FieldsArg(names) == [fn |-> "WithFields", pageSize |-> 0, fieldName |-> names]

Param(arg) ==
    CASE arg.fn = "WithPageSize" -> WithPageSize(arg.pageSize)
      [] arg.fn = "WithDefaultPageSize" -> WithDefaultPageSize
      [] OTHER -> WithFields(arg.fieldName)

Params(args) == [i \in 1..Len(args) |-> Param(args[i])]

GetEvents(params) ==
    /\ pc = "idle"
    /\ Do([method |-> "GetEvents", params |-> params],
          NewRequest("GET", eventsPath, ApplyParams(Params(params), EmptyValues), NoBody))
    /\ UNCHANGED <<client, event>>

GetProfiles(params) ==
    /\ pc = "idle"
    /\ Do([method |-> "GetProfiles", params |-> params],
          NewRequest("GET", profilesPath, ApplyParams(Params(params), EmptyValues), NoBody))
    /\ UNCHANGED <<client, event>>

\* the profile and metric sub-resources CreateEvent nests in the attributes
ProfileRequestData(ID) == [isNil |-> FALSE, data |-> [type |-> profileType, id |-> ID]]
MetricRequestData(metricName) ==
    [isNil |-> FALSE, data |-> [type |-> "metric", attributes |-> [name |-> metricName]]]
NilInterface == [isNil |-> TRUE]

\* CreateEvent is given e = &event: request.Data.NewEvent is that pointer, so
\* the two assignments to request.Data.NewAttributes write the caller's object
CreateEvent(ID, metricName) ==
    /\ pc = "idle"
    /\ event' = [event EXCEPT !.Profile = ProfileRequestData(ID),
                              !.Metric = MetricRequestData(metricName)]
    /\ Do([method |-> "CreateEvent", ID |-> ID, metricName |-> metricName],
          NewRequest("POST", eventsPath, EmptyValues,
                     JSONRequestBody([data |-> [attributes |-> event', type |-> eventType]])))
    /\ UNCHANGED client

CreateProfile(p) ==
    /\ pc = "idle"
    /\ Do([method |-> "CreateProfile", p |-> p],
          NewRequest("POST", profilesPath, EmptyValues,
                     JSONRequestBody([data |-> [attributes |-> p, type |-> profileType]])))
    /\ UNCHANGED <<client, event>>

GetProfile(profileID) ==
    /\ pc = "idle"
    /\ Do([method |-> "GetProfile", profileID |-> profileID],
          NewRequest("GET", profilesPath \o profileID \o <<"">>, EmptyValues, NoBody))
    /\ UNCHANGED <<client, event>>

\* the data object of an update payload with an id member that is never dropped
UpdateRequestData_IDAlways(profileData, profileID, idOmitEmpty) ==
    LET meta == UpdateMeta(profileData.PropertiesToRemove)
        members == {"attributes", "type", "id"} \cup (IF meta.present THEN {"meta"} ELSE {})
    IN  [k \in members |->
            CASE k = "attributes" -> profileData.Attributes
              [] k = "type" -> profileType
              [] k = "id" -> profileID
              [] OTHER -> [patch_properties |-> [unset |-> meta.unset]]]

\* the data object of an update payload; omitempty drops an empty id (when
\* idOmitEmpty) and a nil meta
UpdateRequestData(profileData, profileID, idOmitEmpty) ==
    LET meta == UpdateMeta(profileData.PropertiesToRemove)
        members == {"attributes", "type"}
                   \cup (IF idOmitEmpty /\ profileID = <<"">> THEN {} ELSE {"id"})
                   \cup (IF meta.present THEN {"meta"} ELSE {})
    IN  [k \in members |->
            CASE k = "attributes" -> profileData.Attributes
              [] k = "type" -> profileType
              [] k = "id" -> profileID
              [] OTHER -> [patch_properties |-> [unset |-> meta.unset]]]

UpdateProfile(profileID, updaters) ==
    /\ pc = "idle"
    /\ LET profileData == ApplyUpdaters(updaters, NewProfileData)
           c == [method |-> "UpdateProfile", profileID |-> profileID, updaters |-> updaters]
       IN  IF MarshalFails(profileData.Attributes)
           THEN ReturnEarly(c, NilResult, MarshalError)
           ELSE Do(c, NewRequest("PATCH", PathJoin(profilesPath, profileID), EmptyValues,
                                 JSONRequestBody([data |-> UpdateRequestData(profileData, profileID, FALSE)])))
    /\ UNCHANGED <<client, event>>

CreateOrUpdateProfile(profileID, updaters) ==
    /\ pc = "idle"
    /\ LET pd == ApplyUpdaters(updaters, NewProfileData)
           c == [method |-> "CreateOrUpdateProfile", profileID |-> profileID, updaters |-> updaters]
       IN  IF MarshalFails(pd.Attributes)
           THEN ReturnEarly(c, NilResult, MarshalError)
           ELSE Do(c, NewRequest("POST", profileImportPath, EmptyValues,
                                 JSONRequestBody([data |-> UpdateRequestData(pd, profileID, TRUE)])))
    /\ UNCHANGED <<client, event>>

\* the error of a local validation
ValidationError(s) == [type |-> "errorString", s |-> s]

\* the length checks with the limit off by one
BulkValidation_OffByOne(profiles) ==
    IF Len(profiles) = 0 THEN ValidationError("klaviyo: profiles slice cannot be empty")
    ELSE IF Len(profiles) >= maxBulkProfiles
    THEN ValidationError("klaviyo: maximum 10,000 profiles per bulk import job")
    ELSE NilError

\* the two length checks BulkCreateOrUpdateProfiles starts with: the error it
\* returns, nil when the batch is accepted
BulkValidation(profiles) ==
    IF Len(profiles) = 0 THEN ValidationError("klaviyo: profiles slice cannot be empty")
    ELSE IF Len(profiles) > maxBulkProfiles
    THEN ValidationError("klaviyo: maximum 10,000 profiles per bulk import job")
    ELSE NilError

BulkCreateOrUpdateProfiles(profiles) ==
    /\ pc = "idle"
    /\ LET c == [method |-> "BulkCreateOrUpdateProfiles", profiles |-> profiles]
       IN  IF BulkValidation(profiles).type # "nil"
           THEN ReturnEarly(c, StringResult(""), BulkValidation(profiles))
           ELSE LET profileDataArray ==
                        [i \in 1..Len(profiles) |-> [type |-> profileType, attributes |-> profiles[i]]]
                IN  Do(c, NewRequest("POST", profileBulkImportPath, EmptyValues,
                                     JSONRequestBody([data |-> [type |-> profileBulkImportJobType,
                                                                attributes |-> [profiles |-> [data |-> profileDataArray]]]])))
    /\ UNCHANGED <<client, event>>

(***************************************************************************)
(* CreateEvent statement by statement, for goroutines that run it at the   *)
(* same time on one *event.NewEvent: request.Data.NewEvent is the caller's *)
(* pointer, so lines 244 and 245 write the shared object and json.Marshal  *)
(* in doReq reads it.                                                      *)
(***************************************************************************)
Goroutines == 1..MaxGoroutines
NoProc == [pc |-> "idle", ID |-> "", metricName |-> "", req |-> NoRequest]

\* goroutine g enters CreateEvent(ctx, &event, ID, metricName)
CreateEventEnter(g, ID, metricName) ==
    /\ procs[g].pc = "idle"
    /\ procs' = [procs EXCEPT ![g] = [pc |-> "line244", ID |-> ID, metricName |-> metricName,
                                      req |-> NoRequest]]
    /\ UNCHANGED <<client, event, ctx, pc, call, req, doCalls, attempt, only429, lastResp, unclosed, server, doRes, ret>>

\* line 244: request.Data.NewAttributes.Profile = profileRequestData
CreateEventSetProfile(g) ==
    /\ procs[g].pc = "line244"
    /\ event' = [event EXCEPT !.Profile = ProfileRequestData(procs[g].ID)]
    /\ procs' = [procs EXCEPT ![g].pc = "line245"]
    /\ UNCHANGED <<client, ctx, pc, call, req, doCalls, attempt, only429, lastResp, unclosed, server, doRes, ret>>

\* line 245: request.Data.NewAttributes.Metric = metricRequestData
CreateEventSetMetric(g) ==
    /\ procs[g].pc = "line245"
    /\ event' = [event EXCEPT !.Metric = MetricRequestData(procs[g].metricName)]
    /\ procs' = [procs EXCEPT ![g].pc = "line247"]
    /\ UNCHANGED <<client, ctx, pc, call, req, doCalls, attempt, only429, lastResp, unclosed, server, doRes, ret>>

\* line 247, doReq up to httpClient.Do: the body is marshalled from the
\* object as it is now, and the request is handed to the transport
CreateEventMarshal(g) ==
    /\ procs[g].pc = "line247"
    /\ procs' = [procs EXCEPT ![g].pc = "sent",
                              ![g].req = NewRequest("POST", eventsPath, EmptyValues,
                                             JSONRequestBody([data |-> [attributes |-> event,
                                                                        type |-> eventType]]))]
    /\ UNCHANGED <<client, event, ctx, pc, call, req, doCalls, attempt, only429, lastResp, unclosed, server, doRes, ret>>

(***************************************************************************)
(* The transport's attempts, the rest of doReq, and the return.            *)
(***************************************************************************)
\* One attempt of the retry loop: the request goes out and the inner client
\* returns (resp, doErr).  The loop goes on while CheckRetry asks for a retry
\* and retries remain (attempt i, counted from 0, leaves RetryMax - i), and
\* the transport drains and closes the body of a response it retries;
\* otherwise httpClient.Do returns, the last response's body still open
Attempt(resp, doErr) ==
    /\ pc = "transport"
    /\ attempt' = attempt + 1
    /\ only429' = (only429 /\ ~resp.isNil /\ resp.StatusCode = StatusTooManyRequests)
    /\ IF CheckRetry(resp, doErr).shouldRetry /\ defaultRetryMax - attempt > 0
       THEN /\ pc' = "transport"
            /\ lastResp' = lastResp
            /\ unclosed' = unclosed
            /\ doRes' = doRes
       ELSE /\ pc' = "response"
            /\ lastResp' = resp
            /\ unclosed' = IF resp.isNil THEN unclosed ELSE unclosed + 1
            /\ doRes' = TransportResult(resp, doErr)
    /\ UNCHANGED <<client, event, ctx, call, req, doCalls, procs, ret>>

\* an attempt whose outcome is an input: any server, any network
RoundTrip(resp, doErr) == Attempt(resp, doErr) /\ UNCHANGED server

\* the deferred drain and close of doReq, lines 572-578: they are registered
\* once httpClient.Do has returned without an error, and run on every way out
\* of doReq after that, a panic included
DeferredClose(res, n) == IF res.err.type # "nil" THEN n ELSE n - 1

\* doReq from line 569 on, and the method's return statement
DoReqResponse ==
    /\ pc = "response"
    /\ LET res == doReqResult(doRes, call.method # "CreateEvent")
       IN  IF res.err.type = "panic"
           THEN /\ pc' = "crashed"
                /\ ret' = ret
           ELSE /\ pc' = "done"
                /\ ret' = MethodReturn(call.method, res)
    /\ unclosed' = DeferredClose(doRes, unclosed)
    /\ UNCHANGED <<client, event, ctx, call, req, doCalls, attempt, only429, lastResp, procs, server, doRes>>

(***************************************************************************)
(* A server that stores one profile, as the update tests have it: a PATCH  *)
(* of the stored profile overwrites the attributes the payload holds,      *)
(* merges the properties object into the stored one, removes the           *)
(* properties named under meta.patch_properties.unset, and answers with    *)
(* the profile as stored afterwards; a PATCH of any other id is a 404.     *)
(***************************************************************************)
ProfileBody(profile) ==
    [kind |-> "json", raw |-> "", errorsOK |-> TRUE, errors |-> <<>>, data |-> "profile", profile |-> profile]

\* the stored profile after the payload's data object has been applied
PatchProfile(held, data) ==
    LET sent == data["attributes"]
        unset == IF "meta" \in DOMAIN data
                 THEN {data["meta"].patch_properties.unset[i] :
                          i \in 1..Len(data["meta"].patch_properties.unset)}
                 ELSE {}
        old == IF "properties" \in DOMAIN held.attributes THEN held.attributes["properties"].m ELSE EmptyMap
        new == IF "properties" \in DOMAIN sent THEN sent["properties"].m ELSE EmptyMap
        merged == [j \in ((DOMAIN old) \cup (DOMAIN new)) \ unset |->
                      IF j \in DOMAIN new THEN new[j] ELSE old[j]]
    IN  [id |-> held.id,
         attributes |-> [k \in (DOMAIN held.attributes) \cup (DOMAIN sent) |->
                            IF k = "properties" THEN ObjectValue(merged)
                            ELSE IF k \in DOMAIN sent THEN sent[k]
                            ELSE held.attributes[k]]]

\* the caller derives the context it will pass: one with a cancel function,
\* or none
WithContext(c) ==
    /\ pc = "idle"
    /\ ctx' = c
    /\ UNCHANGED <<client, event, pc, call, req, doCalls, attempt, only429, lastResp, unclosed, procs, server, doRes, ret>>

\* the server comes to hold profile p before the call is made
ServerStore(p) ==
    /\ pc = "idle"
    /\ server' = [id |-> p.id, attributes |-> p.attributes, held |-> p.attributes]
    /\ UNCHANGED <<client, event, ctx, pc, call, req, doCalls, attempt, only429, lastResp, unclosed, procs, doRes, ret>>

\* an attempt of a PATCH that this server answers; the payload it reads is
\* json.Marshal(bodyData), doReq line 551
ServerPatch ==
    /\ pc = "transport"
    /\ req.Method = "PATCH"
    /\ IF req.Path = RequestPath(PathJoin(profilesPath, <<server.id>>))
       THEN LET data == req.Body.json.data
                wire == [k \in DOMAIN data |->
                            IF k = "attributes" THEN MarshalAttributes(data[k]) ELSE data[k]]
                stored == PatchProfile(server, wire)
            IN  /\ server' = [id |-> stored.id, attributes |-> stored.attributes,
                               held |-> server.attributes]
                /\ Attempt(Response(200, ProfileBody(stored)), NilError)
       ELSE /\ server' = server
            /\ Attempt(Response(StatusNotFound,
                                JSONBody(TRUE, <<ErrorObject(StatusNotFound, "not_found", "")>>, "absent")),
                       NilError)

(***************************************************************************)
(* Inputs: what callers pass and what the server and the network answer.   *)
(***************************************************************************)
\* the error codes wrapAPIError knows, and one it does not
ErrorCodes == {"duplicate_profile", "not_found", "not_authenticated", "authentication_failed", "invalid"}
\* the status member of an error object: the statuses wrapAPIError knows, 400,
\* and 0, which a missing member decodes to
ErrorObjectStatuses == {0, 400, StatusUnauthorized, StatusNotFound, StatusConflict}
\* meta.duplicate_profile_id; it is empty when the member is missing
DuplicateProfileIDs == {"", "01H8HKMDG8F4MN7PSRZ4YQYNVQ", "01J2XW5C0QZ3"}

ErrorObjects ==
    {ErrorObject(st, c, d) : st \in ErrorObjectStatuses, c \in ErrorCodes, d \in DuplicateProfileIDs}

\* the first object of an errors list: the id varies with duplicate_profile only
FirstErrorObjects == {o \in ErrorObjects : o.Code = "duplicate_profile" \/ o.DuplicateProfileID = ""}

\* what follows the first object of an errors list
MoreErrorObjects ==
    { <<>>,
      <<ErrorObject(StatusConflict, "duplicate_profile", "01J2XW5C0QZ3")>>,
      <<NullErrorObject>> }

ErrorLists ==
    {<<>>, <<NullErrorObject>>} \cup {<<o>> \o more : o \in FirstErrorObjects, more \in MoreErrorObjects}

\* the data member of a JSON body
DataMembers == {"mistyped", "01H8HKMDG8F4MN7PSRZ4YQYNVQ", "job-1"}

Bodies ==
    {PlainText(""), PlainText("<html>"), BrokenBody, JSONBody(FALSE, <<>>, "absent")}
    \cup {JSONBody(TRUE, errs, "absent") : errs \in ErrorLists}
    \cup {JSONBody(TRUE, <<>>, d) : d \in DataMembers}

\* the statuses on both sides of each end of the 2xx range, and the ones the
\* translation and the retry policy tell apart
HTTPStatuses ==
    {199, 200, 299, 300, StatusUnauthorized, StatusNotFound, StatusConflict, StatusTooManyRequests, 500}

\* what one attempt ends with: a response, a connection error, or the error of
\* the caller's context being done
Outcomes ==
    {[resp |-> Response(st, b), err |-> NilError] : st \in HTTPStatuses, b \in Bodies}
    \cup {[resp |-> NilResponse, err |-> UrlError(ConnError)],
          [resp |-> NilResponse, err |-> UrlError(ContextCanceled)]}

\* the arguments of the calls of Spec
ProfileIDs == {<<"01H8HKMDG8F4MN7PSRZ4YQYNVQ">>}
NewProfiles == {[email |-> "sarah.mason@klaviyo-demo.com"]}
ParamLists == {<<PageSizeArg(3), FieldsArg(<<"email", "phone_number">>)>>}
UpdaterLists ==
    { <<WithPhoneNumber("+15005550006"), WithProperties(<<WithValue("pseudonym", "Dr. Octopus")>>),
        UnsetProperties(<<"skype">>)>>,
      <<WithProperties(<<WithValue("ratio", JSONUnsupported)>>)>> }
BulkProfile(i) == [email |-> "user" \o Itoa(i) \o "@example.com"]
BulkProfiles(n) == [i \in 1..n |-> BulkProfile(i)]
SmallBatches == {BulkProfiles(n) : n \in {0, 1}}
EventArgs == {[ID |-> "01HN6AFEHGF6F77WJRKT1C9JHG", metricName |-> "Reward"]}

inititalEvent ==
    [Time |-> "2024-01-30T05:10:00", Value |-> 0,
     Properties |-> [EventName |-> "EmailSent", PointClaimed |-> "1500", PointOverall |-> "20000"],
     Profile |-> NilInterface, Metric |-> NilInterface]

\* the profile the tests create and then update, as the server holds it
StoredProfile ==
    [id |-> "01H8HKMDG8F4MN7PSRZ4YQYNVQ",
     attributes |->
        [k \in {"email", "phone_number", "first_name", "location", "properties"} |->
            CASE k = "email" -> StringValue("sarah.mason@klaviyo-demo.com")
              [] k = "phone_number" -> StringValue("+15005550006")
              [] k = "first_name" -> StringValue("Sarah")
              [] k = "location" -> ObjectValue([city |-> "New York", latitude |-> Number("json", 56),
                                                longitude |-> Number("json", 24)])
              [] OTHER -> ObjectValue([pseudonym |-> "Dr. Octopus"])]]

Init ==
    /\ client = [APIKey |-> "valid-api-key"]
    /\ event = inititalEvent
    /\ ctx = "context.TODO()"
    /\ pc = "idle"
    /\ call = NoCall
    /\ req = NoRequest
    /\ doCalls = 0
    /\ attempt = 0
    /\ only429 = TRUE
    /\ lastResp = NilResponse
    /\ unclosed = 0
    /\ procs = [g \in Goroutines |-> NoProc]
    /\ server = [id |-> StoredProfile.id, attributes |-> StoredProfile.attributes,
                 held |-> StoredProfile.attributes]
    /\ doRes = NoDoResult
    /\ ret = NoReturn

Next ==
    \/ \E params \in ParamLists : GetEvents(params)
    \/ \E params \in ParamLists : GetProfiles(params)
    \/ \E a \in EventArgs : CreateEvent(a.ID, a.metricName)
    \/ \E p \in NewProfiles : CreateProfile(p)
    \/ \E profileID \in ProfileIDs : GetProfile(profileID)
    \/ \E profileID \in ProfileIDs, updaters \in UpdaterLists : UpdateProfile(profileID, updaters)
    \/ \E profileID \in ProfileIDs, updaters \in UpdaterLists : CreateOrUpdateProfile(profileID, updaters)
    \/ \E profiles \in SmallBatches : BulkCreateOrUpdateProfiles(profiles)
    \/ \E o \in Outcomes : RoundTrip(o.resp, o.err)
    \/ DoReqResponse

Spec == Init /\ [][Next]_vars


(***************************************************************************)
(* The query parameter builder over all its inputs: list calls with every  *)
(* single parameter, and with every list of up to MaxParams parameters of  *)
(* a smaller set, against a server that answers at once.                   *)
(***************************************************************************)
FieldNames == {"", "email", "phone_number"}
FieldNameLists == UNION {[1..n -> FieldNames] : n \in 0..MaxFieldNames}
PageSizes == (0 - PageSizeBelow)..(maxPageSize + PageSizeAbove)

AllParamArgs ==
    {PageSizeArg(p) : p \in PageSizes} \cup {DefaultPageSizeArg}
    \cup {FieldsArg(names) : names \in FieldNameLists}

SomeParamArgs ==
    {PageSizeArg(0), PageSizeArg(3), DefaultPageSizeArg,
     FieldsArg(<<>>), FieldsArg(<<"">>), FieldsArg(<<"email", "phone_number">>)}

AllParamLists ==
    {<<a>> : a \in AllParamArgs} \cup UNION {[1..n -> SomeParamArgs] : n \in 0..MaxParams}

\* a server that answers the first attempt: with the data asked for, or 404
PromptOutcomes ==
    {[resp |-> Response(200, JSONBody(TRUE, <<>>, "01H8HKMDG8F4MN7PSRZ4YQYNVQ")), err |-> NilError],
     [resp |-> Response(StatusNotFound, JSONBody(TRUE, <<ErrorObject(StatusNotFound, "not_found", "")>>, "absent")),
      err |-> NilError]}

NextParams ==
    \/ \E params \in AllParamLists : GetEvents(params)
    \/ \E params \in AllParamLists : GetProfiles(params)
    \/ \E o \in PromptOutcomes : RoundTrip(o.resp, o.err)
    \/ DoReqResponse

SpecParams == Init /\ [][NextParams]_vars

(***************************************************************************)
(* The update composer: every unit alone, and every list of up to          *)
(* MaxUpdaters units of a smaller set.                                     *)
(***************************************************************************)
Units ==
    { WithEmail("sarah.mason@klaviyo-demo.com"), WithEmail(""),
      WithPhoneNumber("+15005550006"), WithExternalId("63f64a2b"), WithAnonymousId("anon-63f64a2b"),
      WithFirstName("Sarah"), WithLastName("Mason"), WithOrganization("Klaviyo"),
      WithTitle("Engineer"), WithImage("https://images.pexels.com/photo.jpeg"),
      WithLocation(<<>>),
      WithLocation(<<WithValue("city", "New York"), WithValue("zip", "10017")>>),
      WithLocation(<<WithValue("country", "United States")>>),
      WithProperties(<<WithValue("pseudonym", "Dr. Octopus")>>),
      WithProperties(<<WithValue("skype", "sarah"), WithValue("pseudonym", "Spider-Man")>>),
      UnsetProperties(<<"skype", "pseudonym">>),
      UnsetProperties(<<"skype">>) }

\* the units that meet in longer lists: two for the same key, nested objects,
\* a set and an unset of the same property
SomeUnits ==
    { WithEmail("sarah.mason@klaviyo-demo.com"), WithEmail(""),
      WithPhoneNumber("+15005550006"),
      WithLocation(<<WithValue("city", "New York"), WithValue("zip", "10017")>>),
      WithLocation(<<WithValue("country", "United States")>>),
      WithProperties(<<WithValue("pseudonym", "Dr. Octopus")>>),
      WithProperties(<<WithValue("skype", "sarah"), WithValue("pseudonym", "Spider-Man")>>),
      UnsetProperties(<<"skype">>), UnsetProperties(<<"pseudonym">>) }

AllUpdaterLists ==
    {<<u>> : u \in Units} \cup UNION {[1..n -> SomeUnits] : n \in 0..MaxUpdaters}
AllProfileIDs == {<<"">>, <<"01H8HKMDG8F4MN7PSRZ4YQYNVQ">>}

NextUpdate ==
    \/ \E profileID \in AllProfileIDs, updaters \in AllUpdaterLists : UpdateProfile(profileID, updaters)
    \/ \E profileID \in AllProfileIDs, updaters \in AllUpdaterLists : CreateOrUpdateProfile(profileID, updaters)
    \/ \E o \in PromptOutcomes : RoundTrip(o.resp, o.err)
    \/ DoReqResponse

SpecUpdate == Init /\ [][NextUpdate]_vars

(***************************************************************************)
(* Partial updates against the storing server: every list of up to         *)
(* MaxUpdaters units that set, replace and unset what the server holds,    *)
(* with values of each Go type the nested maps take.                       *)
(***************************************************************************)
HeldProfiles ==
    { StoredProfile,
      [id |-> "01H8HKMDG8F4MN7PSRZ4YQYNVQ",
       attributes |->
          [k \in {"email", "last_name", "properties"} |->
              CASE k = "email" -> StringValue("sarah.mason@klaviyo-demo.com")
                [] k = "last_name" -> StringValue("Mason")
                [] OTHER -> ObjectValue([pseudonym |-> "Dr. Octopus", skype |-> "sarah_mason_skype",
                                         points |-> Number("json", 1500)])]] }

PatchUnits ==
    { WithEmail("s.mason@klaviyo-demo.com"),
      WithPhoneNumber("+15005550007"),
      WithLocation(<<WithValue("city", "Riga"), WithValue("latitude", Number("float64", 56))>>),
      WithProperties(<<WithValue("pseudonym", "Ms. Octopus")>>),
      WithProperties(<<WithValue("skype", "sarah_mason_skype"), WithValue("points", Number("int", 1500))>>),
      WithProperties(<<WithValue("ratio", Number("float64", 24))>>),
      WithProperties(<<WithValue("ratio", JSONUnsupported)>>),
      UnsetProperties(<<"skype", "pseudonym">>) }

PatchUpdaterLists == UNION {[1..n -> PatchUnits] : n \in 0..MaxUpdaters}
PatchProfileIDs == {<<"01H8HKMDG8F4MN7PSRZ4YQYNVQ">>, <<"UQHWDB2XIYWHF9GYUWCY04KU8O">>}

\* profiles a caller turns into units: nil, the zero value, and those with
\* some of the optional fields, location fields and properties
NilProfile == [isNil |-> TRUE, Email |-> "", Pointers |-> EmptyMap, Location |-> EmptyMap, Properties |-> EmptyMap]
ProfilesToUpdate ==
    {NilProfile} \cup
    { [isNil |-> FALSE, Email |-> email, Pointers |-> pointers, Location |-> loc, Properties |-> properties] :
        email \in {"", "sarah.mason@klaviyo-demo.com"},
        pointers \in {EmptyMap, [phone_number |-> "+15005550006"],
                      [image |-> "https://images.pexels.com/photo.jpeg", first_name |-> "Sarah"]},
        loc \in {EmptyMap, [city |-> "New York"],
                 [zip |-> "10017", latitude |-> Number("float64", 56), address1 |-> "89 E 42nd St"]},
        properties \in {EmptyMap, [pseudonym |-> "Dr. Octopus"],
                        [pseudonym |-> "Dr. Octopus", points |-> Number("int", 1500)]} }

NextRoundTrip ==
    \/ \E p \in HeldProfiles : ServerStore(p)
    \/ \E profileID \in PatchProfileIDs, p \in ProfilesToUpdate :
          \E order \in Orders(DOMAIN p.Properties) : UpdateProfile(profileID, ToUpdaters(p, order))
    \/ \E profileID \in PatchProfileIDs, updaters \in PatchUpdaterLists : UpdateProfile(profileID, updaters)
    \/ ServerPatch
    \/ DoReqResponse

SpecRoundTrip == Init /\ [][NextRoundTrip]_vars

(***************************************************************************)
(* Every method under a context of the caller's, against a network that    *)
(* fails, a context that is cancelled during an attempt, and a server that *)
(* answers or throttles.                                                   *)
(***************************************************************************)
Contexts == {"context.TODO()", "context.WithCancel(parent)"}

FailingOutcomes ==
    {[resp |-> NilResponse, err |-> UrlError(ConnError)],
     [resp |-> NilResponse, err |-> UrlError(ContextCanceled)],
     [resp |-> Response(200, JSONBody(TRUE, <<>>, "01H8HKMDG8F4MN7PSRZ4YQYNVQ")), err |-> NilError],
     [resp |-> Response(StatusTooManyRequests, PlainText("")), err |-> NilError]}

NextContext ==
    \/ \E c \in Contexts : WithContext(c)
    \/ \E params \in ParamLists : GetEvents(params)
    \/ \E params \in ParamLists : GetProfiles(params)
    \/ \E a \in EventArgs : CreateEvent(a.ID, a.metricName)
    \/ \E p \in NewProfiles : CreateProfile(p)
    \/ \E profileID \in ProfileIDs : GetProfile(profileID)
    \/ \E profileID \in ProfileIDs, updaters \in UpdaterLists : UpdateProfile(profileID, updaters)
    \/ \E profileID \in ProfileIDs, updaters \in UpdaterLists : CreateOrUpdateProfile(profileID, updaters)
    \/ \E profiles \in SmallBatches : BulkCreateOrUpdateProfiles(profiles)
    \/ \E o \in FailingOutcomes :
          /\ ErrorsIs(o.err, ContextCanceled) => req.Context = "context.WithCancel(parent)"
          /\ RoundTrip(o.resp, o.err)
    \/ DoReqResponse

SpecContext == Init /\ [][NextContext]_vars

(***************************************************************************)
(* GetProfile and UpdateProfile over profile ids of every shape: empty,    *)
(* plain, with '/' separators, and with "." and ".." segments.             *)
(***************************************************************************)
PathProfileIDs ==
    { <<"">>, <<"01H8HKMDG8F4MN7PSRZ4YQYNVQ">>, <<"01H8", "x">>, <<".">>, <<"..">>,
      <<"..", "events">>, <<"..", "profile-import">>, <<"..", "..", "admin">>,
      <<"01H8", "..", "..", "events">>, <<"", "etc">> }

NextPaths ==
    \/ \E profileID \in PathProfileIDs : GetProfile(profileID)
    \/ \E profileID \in PathProfileIDs, u \in SomeUnits : UpdateProfile(profileID, <<u>>)
    \/ \E o \in PromptOutcomes : RoundTrip(o.resp, o.err)
    \/ DoReqResponse

SpecPaths == Init /\ [][NextPaths]_vars

(***************************************************************************)
(* Bulk import over batch lengths 0..MaxSmallBatch and the lengths within  *)
(* BatchAroundLimit of the limit, against a server that may throttle.      *)
(***************************************************************************)
BatchLengths ==
    (0..MaxSmallBatch) \cup ((maxBulkProfiles - BatchAroundLimit)..(maxBulkProfiles + BatchAroundLimit))
AllBatches == {BulkProfiles(n) : n \in BatchLengths}

BulkBodies ==
    {PlainText("<html>"), JSONBody(TRUE, <<>>, "absent"), JSONBody(TRUE, <<>>, "mistyped"),
     JSONBody(TRUE, <<>>, "job-1"), JSONBody(TRUE, <<>>, "job-2")}
BulkOutcomes ==
    {[resp |-> Response(st, b), err |-> NilError] :
        st \in {200, 202, StatusUnauthorized, StatusTooManyRequests, 500}, b \in BulkBodies}
    \cup {[resp |-> NilResponse, err |-> UrlError(ConnError)]}

NextBulk ==
    \/ \E profiles \in AllBatches : BulkCreateOrUpdateProfiles(profiles)
    \/ \E o \in BulkOutcomes : RoundTrip(o.resp, o.err)
    \/ DoReqResponse

SpecBulk == Init /\ [][NextBulk]_vars


(***************************************************************************)
(* Properties.  What a call has observably done: the request it built, the *)
(* attempts the transport made, and the pair the method returned.          *)
(***************************************************************************)
QueryIndexes(key) == {i \in 1..Len(req.RawQuery) : req.RawQuery[i].key = key}
QueryAbsent(key) == QueryIndexes(key) = {}
\* the key occurs once in the query string, with this value
QueryIs(key, value) ==
    \E i \in 1..Len(req.RawQuery) : QueryIndexes(key) = {i} /\ req.RawQuery[i].value = value

ListCall == pc # "idle" /\ call.method \in ListMethods
UpdateCall == pc # "idle" /\ call.method \in {"UpdateProfile", "CreateOrUpdateProfile"}
BulkCall == pc # "idle" /\ call.method = "BulkCreateOrUpdateProfiles"

PageSizeFns == {"WithPageSize", "WithDefaultPageSize"}
\* the positions of the call's parameters of these constructors
ParamIndexes(fns) == {i \in 1..Len(call.params) : call.params[i].fn \in fns}
\* the last page-size parameter of the call is at position i
LastPageSize(i) == i \in ParamIndexes(PageSizeFns) /\ \A j \in ParamIndexes(PageSizeFns) : j <= i

\* strings.Join read from the left: the first n elements, comma-separated
RECURSIVE JoinLeft(_, _)
JoinLeft(names, n) ==
    IF n = 0 THEN ""
    ELSE IF n = 1 THEN names[1]
    ELSE JoinLeft(names, n - 1) \o "," \o names[n]

\* the keys the call's units write: every unit but the unset ones names one
WrittenKeys ==
    {call.updaters[i].key : i \in {j \in 1..Len(call.updaters) : call.updaters[j].fn # "UnsetProperties"}}
SentAttributes == req.Body.json.data["attributes"]

(* C1: the attributes object of an update request holds exactly the keys   *)
(* the supplied units wrote; a key no unit wrote is absent from the object *)
(* (not sent as "" or null), whatever the units and the method.            *)
C1_OnlyWrittenKeysSent ==
    UpdateCall => DOMAIN SentAttributes = WrittenKeys

C1_Witness ==
    /\ pc = "transport"
    /\ call.method = "UpdateProfile"
    /\ call.updaters = <<WithPhoneNumber("+15005550006"), UnsetProperties(<<"skype">>)>>
    /\ DOMAIN SentAttributes = {"phone_number"}
    /\ "email" \notin DOMAIN SentAttributes

(* C2: when WithPageSize(p) is the call's last page-size parameter, the    *)
(* query has page[size] once, as the decimal text of p clamped into        *)
(* [1, 100]: 1 for p <= 0, 100 for p > 100, p otherwise.                   *)
C2_PageSizeClamped ==
    ListCall =>
        \A i \in 1..Len(call.params) :
            (LastPageSize(i) /\ call.params[i].fn = "WithPageSize") =>
                LET p == call.params[i].pageSize
                IN  /\ QueryIs("page[size]", IF p <= 0 THEN "1" ELSE IF p > 100 THEN "100" ELSE Itoa(p))
                    /\ \E k \in 1..100 : QueryIs("page[size]", Itoa(k))

C2_Witness ==
    /\ pc = "transport"
    /\ call.method = "GetProfiles"
    /\ call.params = <<PageSizeArg(101)>>
    /\ QueryIs("page[size]", "100")

(* C3, as stated: a list call without any page-size parameter sends        *)
(* page[size]=20.                                                          *)
C3_DefaultPageSizeSent ==
    (ListCall /\ ParamIndexes(PageSizeFns) = {}) => QueryIs("page[size]", "20")

(* C3, amended: a list call without any page-size parameter sends no       *)
(* page[size] key at all; page[size]=20 is sent when WithDefaultPageSize() *)
(* is the call's last page-size parameter.                                 *)
C3_DefaultPageSizeOnRequest ==
    ListCall =>
        /\ ParamIndexes(PageSizeFns) = {} => QueryAbsent("page[size]")
        /\ \A i \in 1..Len(call.params) :
              (LastPageSize(i) /\ call.params[i].fn = "WithDefaultPageSize") => QueryIs("page[size]", "20")

C3_Witness ==
    /\ pc = "transport"
    /\ call.method = "GetProfiles"
    /\ call.params = <<>>
    /\ QueryAbsent("page[size]")
    /\ req.RawQuery = <<>>

(* C4, as stated: with one WithFields parameter, an empty list of names    *)
(* leaves fields[profile] absent and a non-empty list sets it to the       *)
(* comma-join of the names, empty-string names included.                   *)
C4_FieldsJoined ==
    ListCall =>
        \A i \in 1..Len(call.params) :
            ParamIndexes({"WithFields"}) = {i} =>
                LET names == call.params[i].fieldName
                IN  IF names = <<>> THEN QueryAbsent("fields[profile]")
                    ELSE QueryIs("fields[profile]", JoinLeft(names, Len(names)))

(* C4, amended: with one WithFields parameter, fields[profile] is absent   *)
(* when the list of names is empty or is the one empty name (the join is   *)
(* then the empty string), and is the comma-join of the names otherwise,   *)
(* empty-string names included.                                            *)
C4_FieldsJoinedUnlessEmpty ==
    ListCall =>
        \A i \in 1..Len(call.params) :
            ParamIndexes({"WithFields"}) = {i} =>
                LET names == call.params[i].fieldName
                IN  IF names = <<>> \/ names = <<"">> THEN QueryAbsent("fields[profile]")
                    ELSE QueryIs("fields[profile]", JoinLeft(names, Len(names)))

C4_Witness ==
    /\ pc = "transport"
    /\ call.method = "GetProfiles"
    /\ call.params = <<FieldsArg(<<"">>)>>
    /\ QueryAbsent("fields[profile]")

\* the call has returned after doReq read a response (no transport error)
Answered == pc = "done" /\ doCalls > 0 /\ doRes.err.type = "nil" /\ ~doRes.resp.isNil
AnsweredStatus == doRes.resp.StatusCode
\* the response's body is an error envelope whose first error is an object
HasFirstError ==
    /\ Answered
    /\ doRes.resp.Body.kind = "json"
    /\ doRes.resp.Body.errorsOK
    /\ Len(doRes.resp.Body.errors) > 0
    /\ ~doRes.resp.Body.errors[1].isNil
FirstError == doRes.resp.Body.errors[1]

\* errors.As(err, &e) succeeds for an *ErrProfileAlreadyExists e with this id
IsAlreadyExists(err, id) ==
    LET as == ErrorsAs(err, "*ErrProfileAlreadyExists")
    IN  as.ok /\ as.e.DuplicateProfileID = id
\* the error is the sentinel value itself
IsSentinel(err, sentinel) == err.type = sentinel.type /\ err = sentinel

(* C5, as stated: for every method, a response with HTTP status 409 whose  *)
(* first error object has code duplicate_profile and duplicate id X makes  *)
(* the call return an *ErrProfileAlreadyExists with DuplicateProfileID X.  *)
C5_ConflictIsAlreadyExists ==
    (HasFirstError /\ AnsweredStatus = 409 /\ FirstError.Code = "duplicate_profile")
        => IsAlreadyExists(ret.err, FirstError.DuplicateProfileID)

(* C5, amended: for every method, a response with HTTP status 409 whose    *)
(* first error object has status member 409, code duplicate_profile and    *)
(* duplicate id X makes the call return an *ErrProfileAlreadyExists with   *)
(* DuplicateProfileID X.                                                   *)
C5_ConflictObjectIsAlreadyExists ==
    (HasFirstError /\ AnsweredStatus = 409
        /\ FirstError.Status = 409 /\ FirstError.Code = "duplicate_profile")
        => IsAlreadyExists(ret.err, FirstError.DuplicateProfileID)

C5_Witness ==
    /\ HasFirstError
    /\ call.method = "CreateProfile"
    /\ AnsweredStatus = 409
    /\ FirstError = ErrorObject(409, "duplicate_profile", "01H8HKMDG8F4MN7PSRZ4YQYNVQ")
    /\ IsAlreadyExists(ret.err, "01H8HKMDG8F4MN7PSRZ4YQYNVQ")
    /\ ret.result = NilResult

(* C6, as stated: a response with HTTP status 404 whose first error object *)
(* has code not_found makes the call return the ErrProfileDoesNotExist     *)
(* sentinel itself, with a nil result.                                     *)
C6_NotFoundIsDoesNotExist ==
    (HasFirstError /\ AnsweredStatus = 404 /\ FirstError.Code = "not_found")
        => (IsSentinel(ret.err, ErrProfileDoesNotExist) /\ ret.result = FailureResult(call.method))

(* C6, amended: a response with HTTP status 404 whose first error object   *)
(* has status member 404 and code not_found makes the call return the      *)
(* ErrProfileDoesNotExist sentinel itself, with a nil result.              *)
C6_NotFoundObjectIsDoesNotExist ==
    (HasFirstError /\ AnsweredStatus = 404
        /\ FirstError.Status = 404 /\ FirstError.Code = "not_found")
        => (IsSentinel(ret.err, ErrProfileDoesNotExist) /\ ret.result = FailureResult(call.method))

C6_Witness ==
    /\ HasFirstError
    /\ call.method = "GetProfile"
    /\ AnsweredStatus = 404
    /\ FirstError = ErrorObject(404, "not_found", "")
    /\ IsSentinel(ret.err, ErrProfileDoesNotExist)
    /\ ret.result = NilResult

AuthCodes == {"not_authenticated", "authentication_failed"}

(* C7, as stated: for every method, a response with HTTP status 401 whose  *)
(* first error object has code not_authenticated or authentication_failed  *)
(* makes the call return the ErrInvalidAPIKey sentinel itself, with a nil  *)
(* result.                                                                 *)
C7_UnauthorizedIsInvalidAPIKey ==
    (HasFirstError /\ AnsweredStatus = 401 /\ FirstError.Code \in AuthCodes)
        => (IsSentinel(ret.err, ErrInvalidAPIKey) /\ ret.result = FailureResult(call.method))

(* C7, amended: for every method, a response with HTTP status 401 whose    *)
(* first error object has status member 401 and code not_authenticated or  *)
(* authentication_failed makes the call return the ErrInvalidAPIKey        *)
(* sentinel itself, with a nil result.                                     *)
C7_UnauthorizedObjectIsInvalidAPIKey ==
    (HasFirstError /\ AnsweredStatus = 401
        /\ FirstError.Status = 401 /\ FirstError.Code \in AuthCodes)
        => (IsSentinel(ret.err, ErrInvalidAPIKey) /\ ret.result = FailureResult(call.method))

C7_Witness ==
    /\ HasFirstError
    /\ call.method = "GetProfiles"
    /\ AnsweredStatus = 401
    /\ FirstError = ErrorObject(401, "authentication_failed", "")
    /\ IsSentinel(ret.err, ErrInvalidAPIKey)
    /\ ret.result = NilResult

\* httpClient.Do has returned
DoReturned == pc \in {"response", "done", "crashed"} /\ doCalls > 0

(* C8: when every attempt of a call was answered with HTTP 429, whatever   *)
(* the bodies, httpClient.Do returns only after 1 + 4 attempts, and the    *)
(* call returns an error that errors.Is ErrTooManyRequests, beside a nil   *)
(* result; and no call returns ErrTooManyRequests after fewer attempts.    *)
C8_TooManyRequestsAfterRetries ==
    /\ (DoReturned /\ only429) => (attempt = 1 + 4 /\ ErrorsIs(doRes.err, ErrTooManyRequests))
    /\ (pc = "done" /\ doCalls > 0 /\ only429)
            => (ErrorsIs(ret.err, ErrTooManyRequests) /\ ret.result = FailureResult(call.method))
    /\ (pc = "done" /\ ErrorsIs(ret.err, ErrTooManyRequests)) => attempt = 1 + 4

C8_Witness ==
    /\ pc = "done"
    /\ call.method = "GetProfile"
    /\ only429
    /\ attempt = 5
    /\ ErrorsIs(ret.err, ErrTooManyRequests)
    /\ ret.result = NilResult

\* the call has returned after the last of the 1 + defaultRetryMax attempts
\* failed as the ones before it: a connection error, a 429 or a 5xx
RetriesExhausted ==
    /\ pc = "done"
    /\ attempt = 1 + defaultRetryMax
    /\ \/ ErrorsIs(doRes.err, ConnError)
       \/ ErrorsIs(doRes.err, ErrTooManyRequests)
       \/ (doRes.err.type = "nil" /\ ~doRes.resp.isNil /\ doRes.resp.StatusCode >= 500)

(* C9: when the transport has made all its 1 + defaultRetryMax attempts    *)
(* and the call fails, the error the method returns is ErrTooManyRequests. *)
C9_ExhaustedRetriesAreTooManyRequests ==
    (RetriesExhausted /\ ret.err.type # "nil") => ErrorsIs(ret.err, ErrTooManyRequests)

BatchLen == Len(call.profiles)
\* the profile records of the bulk job the request's body creates
SentProfiles == req.Body.json.data.attributes.profiles.data

C10_OverLimit_Reached ==
    /\ BulkCall
    /\ BatchLen = 10001
    /\ pc = "done"
    /\ doCalls = 0

\* the answered call's response is not a 2xx and its body is no error
\* envelope: not JSON at all, or JSON whose errors member is no list of objects
UnparseableErrorBody ==
    /\ Answered
    /\ (AnsweredStatus < 200 \/ AnsweredStatus >= 300)
    /\ (doRes.resp.Body.kind = "text" \/ (doRes.resp.Body.kind = "json" /\ ~doRes.resp.Body.errorsOK))
\* the JSON decode failure such a body gives
DecodeFailure == IF doRes.resp.Body.kind = "text" THEN SyntaxError ELSE UnmarshalTypeError
\* the error is a *BadHTTPResponseError holding the response read and the failure
IsBadResponseOfAnswer(err) ==
    /\ err.type = "*BadHTTPResponseError"
    /\ StatusCode(err) = AnsweredStatus
    /\ Body(err) = doRes.resp.Body
    /\ Unwrap(err) = DecodeFailure
    /\ Cause(err) = DecodeFailure
\* the call has returned and the server's last response is not a 2xx and no
\* error envelope
LastUnparseable ==
    /\ pc = "done" /\ ~lastResp.isNil
    /\ (lastResp.StatusCode < 200 \/ lastResp.StatusCode >= 300)
    /\ (lastResp.Body.kind = "text" \/ (lastResp.Body.kind = "json" /\ ~lastResp.Body.errorsOK))

(* C11, as stated: every non-2xx response whose body is no error envelope  *)
(* makes the call return a *BadHTTPResponseError with the response's       *)
(* status and raw body and the decode failure as its cause; a 429 is such  *)
(* a response too.                                                         *)
C11_UnparseableIsBadResponse ==
    LastUnparseable =>
        /\ ret.err.type = "*BadHTTPResponseError"
        /\ StatusCode(ret.err) = lastResp.StatusCode
        /\ Body(ret.err) = lastResp.Body
        /\ Unwrap(ret.err) = (IF lastResp.Body.kind = "text" THEN SyntaxError ELSE UnmarshalTypeError)
        /\ Cause(ret.err) = Unwrap(ret.err)

(* C11, amended: every non-2xx response other than a 429 whose body is no  *)
(* error envelope makes the call return a *BadHTTPResponseError whose      *)
(* StatusCode() is the response's status, whose Body() is the raw body and *)
(* whose Unwrap() and Cause() are the JSON decode failure; a 429 gives     *)
(* ErrTooManyRequests whatever its body.                                   *)
C11_UnparseableNon429IsBadResponse ==
    LastUnparseable =>
        IF lastResp.StatusCode = 429
        THEN ErrorsIs(ret.err, ErrTooManyRequests)
        ELSE UnparseableErrorBody /\ IsBadResponseOfAnswer(ret.err)

C11_Witness ==
    /\ UnparseableErrorBody
    /\ call.method = "GetProfile"
    /\ AnsweredStatus = 409
    /\ doRes.resp.Body = PlainText("<html>")
    /\ ret.err = BadHTTPResponseError(409, PlainText("<html>"), SyntaxError)
    /\ ret.result = NilResult

\* the call is over: the method has returned, or the goroutine has panicked
CallEnded == pc \in {"done", "crashed"}
\* the call met one of the failures: a local validation or body encoding
\* failure (no request was handed on), a transport error, a response that is
\* not a 2xx, a body that could not be read, a 2xx body that does not decode
\* into the result the method expects
CallFailed ==
    /\ CallEnded
    /\ \/ doCalls = 0
       \/ doRes.err.type # "nil"
       \/ /\ ~lastResp.isNil
          /\ \/ lastResp.StatusCode < 200 \/ lastResp.StatusCode >= 300
             \/ lastResp.Body.kind = "broken"
             \/ /\ call.method # "CreateEvent"
                /\ (lastResp.Body.kind = "text" \/ lastResp.Body.data = "mistyped")
\* the nil or zero result of the method: a nil pointer or slice, the empty
\* job id; CreateEvent returns an error only
ZeroResult ==
    CASE call.method = "BulkCreateOrUpdateProfiles" -> [kind |-> "string", data |-> ""]
      [] call.method = "CreateEvent" -> [kind |-> "none", data |-> ""]
      [] OTHER -> [kind |-> "nil", data |-> ""]

(* C12: for every method, a call that met a failure (local validation,     *)
(* body encoding, transport error, non-2xx response, unreadable or         *)
(* undecodable body) ends by returning a non-nil error beside a nil or     *)
(* zero result; and whenever the error returned is non-nil the result is   *)
(* nil or zero.                                                            *)
C12_FailuresReturnErrors ==
    /\ CallFailed => (pc = "done" /\ ret.err.type # "nil" /\ ret.result = ZeroResult)
    /\ (pc = "done" /\ ret.err.type # "nil") => ret.result = ZeroResult

\* the same for the calls that return
C12_ReturnedFailuresAreErrors ==
    /\ (CallFailed /\ pc = "done") => (ret.err.type # "nil" /\ ret.result = ZeroResult)
    /\ (pc = "done" /\ ret.err.type # "nil") => (CallFailed /\ ret.result = ZeroResult)

(* C13: every request handed to the transport carries Authorization =      *)
(* "Klaviyo-API-Key " + the client's key, Accept = application/json and    *)
(* Revision = the pinned revision, and nothing else but Content-Type =     *)
(* application/json, which is there exactly when the method is POST, PATCH *)
(* or PUT (never on a GET).                                                *)
C13_RequestHeaders ==
    doCalls > 0 =>
        /\ {"Authorization", "Accept", "Revision"} \subseteq DOMAIN req.Header
        /\ DOMAIN req.Header \subseteq {"Authorization", "Accept", "Revision", "Content-Type"}
        /\ req.Header["Authorization"] = "Klaviyo-API-Key " \o client.APIKey
        /\ req.Header["Accept"] = "application/json"
        /\ req.Header["Revision"] = "2025-04-15"
        /\ ("Content-Type" \in DOMAIN req.Header) <=> (req.Method \in {"POST", "PATCH", "PUT"})
        /\ req.Method = "GET" => "Content-Type" \notin DOMAIN req.Header
        /\ "Content-Type" \in DOMAIN req.Header => req.Header["Content-Type"] = "application/json"

C13_Witness ==
    /\ pc = "transport"
    /\ call.method = "UpdateProfile"
    /\ req.Method = "PATCH"
    /\ req.Header["Authorization"] = "Klaviyo-API-Key valid-api-key"
    /\ "Content-Type" \in DOMAIN req.Header

\* a GET request went out without a content-type
C13_Get_Reached ==
    /\ pc = "transport"
    /\ req.Method = "GET"
    /\ DOMAIN req.Header = {"Authorization", "Accept", "Revision"}

(* C14: when a call is over, every response body the server produced for   *)
(* it has been drained and closed, whichever way the call ended, the 429   *)
(* path included.                                                          *)
C14_BodiesClosed ==
    CallEnded => unclosed = 0

\* the body left open is that of a final 429, and only that
C14_OnlyFinal429LeftOpen ==
    CallEnded => (unclosed = (IF ~lastResp.isNil /\ lastResp.StatusCode = 429 THEN 1 ELSE 0))

(***************************************************************************)
(* Goroutines calling CreateEvent at the same time with the caller's one   *)
(* event and their own profile ids and metric names.                       *)
(***************************************************************************)
EventProfileIDs == {"01HN6AFEHGF6F77WJRKT1C9JHG", "01H8HKMDG8F4MN7PSRZ4YQYNVQ"}
MetricNames == {"Reward", "Purchase"}

NextConcurrent ==
    \/ \E g \in Goroutines, ID \in EventProfileIDs, metricName \in MetricNames :
            CreateEventEnter(g, ID, metricName)
    \/ \E g \in Goroutines : CreateEventSetProfile(g)
    \/ \E g \in Goroutines : CreateEventSetMetric(g)
    \/ \E g \in Goroutines : CreateEventMarshal(g)

SpecConcurrent == Init /\ [][NextConcurrent]_vars

\* the attributes of the event the goroutine's request carries
SentEvent(g) == procs[g].req.Body.json.data.attributes

(* C15: under every interleaving, the request a goroutine's CreateEvent    *)
(* sends carries that goroutine's own profile id and metric name, also     *)
(* when the goroutines were given the same event.                          *)
C15_ConcurrentCallsIndependent ==
    \A g \in Goroutines :
        procs[g].pc = "sent" =>
            /\ SentEvent(g).Profile = [isNil |-> FALSE, data |-> [type |-> "profile", id |-> procs[g].ID]]
            /\ SentEvent(g).Metric =
                  [isNil |-> FALSE, data |-> [type |-> "metric", attributes |-> [name |-> procs[g].metricName]]]

\* a goroutine that runs alone does send its own arguments
C15_SequentialCallsIndependent ==
    \A g \in Goroutines :
        (procs[g].pc = "sent" /\ (\A h \in Goroutines \ {g} : procs[h].pc = "idle"))
            => (SentEvent(g).Profile.data.id = procs[g].ID
                /\ SentEvent(g).Metric.data.attributes.name = procs[g].metricName)

(***************************************************************************)
(* C16: round trip of a partial update against the storing server.         *)
(***************************************************************************)
\* UpdateProfile of the stored profile has returned
PatchReturned == pc = "done" /\ call.method = "UpdateProfile" /\ call.profileID = <<server.id>>
\* the units of the call that write attribute key, and the last of them
UnitIndexes(key) ==
    {i \in 1..Len(call.updaters) : call.updaters[i].fn # "UnsetProperties" /\ call.updaters[i].key = key}
LastUnit(key) == call.updaters[CHOOSE i \in UnitIndexes(key) : \A j \in UnitIndexes(key) : j <= i]
\* the names and values a location or properties unit supplies
Supplied(u) ==
    [name \in {u.subs[i].key : i \in 1..Len(u.subs)} |->
        u.subs[CHOOSE i \in 1..Len(u.subs) :
                  /\ u.subs[i].key = name
                  /\ \A j \in 1..Len(u.subs) : u.subs[j].key = name => j <= i].v]
SuppliedProperties == IF UnitIndexes("properties") = {} THEN EmptyMap ELSE Supplied(LastUnit("properties"))
UnsetNames ==
    UNION {{call.updaters[i].subs[j] : j \in 1..Len(call.updaters[i].subs)} :
              i \in {x \in 1..Len(call.updaters) : call.updaters[x].fn = "UnsetProperties"}}
\* a returned Go value v is the value the server held as JSON value j
SameAsHeld(v, j) == v = j \/ \E n \in Numerals : j = Number("json", n) /\ v = Number("float64", n)
HeldField(value, held) ==
    IF held.kind = "object"
    THEN /\ value.kind = "object"
         /\ DOMAIN value.m = DOMAIN held.m
         /\ \A name \in DOMAIN held.m : SameAsHeld(value.m[name], held.m[name])
    ELSE value = held
AttributeKeys ==
    {"email", "phone_number", "external_id", "anonymous_id", "first_name", "last_name",
     "organization", "title", "image", "location"}
\* the attributes other than properties: written ones as supplied, the others as held
AttributesRoundTrip(R) ==
    \A k \in AttributeKeys :
        IF UnitIndexes(k) # {}
        THEN /\ k \in DOMAIN R
             /\ R[k] = IF k = "location" THEN ObjectValue(Supplied(LastUnit(k)))
                       ELSE StringValue(LastUnit(k).v)
        ELSE IF k \in DOMAIN server.held THEN k \in DOMAIN R /\ HeldField(R[k], server.held[k])
        ELSE k \notin DOMAIN R \/ (k = "email" /\ R[k] = StringValue(""))
\* the properties: unset ones gone, written ones as Written gives them, the others as held
PropertiesRoundTrip(R, Written(_)) ==
    LET P == IF "properties" \in DOMAIN R THEN R["properties"].m ELSE EmptyMap
        H == IF "properties" \in DOMAIN server.held THEN server.held["properties"].m ELSE EmptyMap
        S == SuppliedProperties
    IN  \A name \in (DOMAIN P) \cup (DOMAIN H) \cup (DOMAIN S) \cup UnsetNames :
            IF name \in UnsetNames THEN name \notin DOMAIN P
            ELSE IF name \in DOMAIN S THEN name \in DOMAIN P /\ P[name] = Written(S[name])
            ELSE IF name \in DOMAIN H THEN name \in DOMAIN P /\ SameAsHeld(P[name], H[name])
            ELSE name \notin DOMAIN P
AsSupplied(v) == v
\* what encoding/json makes of a supplied value: an int comes back a float64
AsDecoded(v) ==
    IF \E n \in Numerals : v = Number("int", n)
    THEN Number("float64", CHOOSE n \in Numerals : v = Number("int", n))
    ELSE v
\* every value of the call's units has a JSON encoding
Encodable ==
    \A i \in 1..Len(call.updaters) :
        call.updaters[i].fn \in {"WithLocation", "WithProperties"} =>
            \A j \in 1..Len(call.updaters[i].subs) : call.updaters[i].subs[j].v # JSONUnsupported

ExpectedAttributes(p) ==
    [k \in (IF p.Email # "" THEN {"email"} ELSE {})
           \cup (DOMAIN p.Pointers)
           \cup (IF DOMAIN p.Location # {} THEN {"location"} ELSE {})
           \cup (IF DOMAIN p.Properties # {} THEN {"properties"} ELSE {}) |->
        CASE k = "email" -> StringValue(p.Email)
          [] k = "location" -> ObjectValue(p.Location)
          [] k = "properties" -> ObjectValue(p.Properties)
          [] OTHER -> StringValue(p.Pointers[k])]

\* C17: for every profile p and every iteration order of its properties,
\* p.ToUpdaters() applied to a fresh composer yields email iff it is
\* non-empty, each optional scalar iff non-nil, location iff a location field
\* is non-nil (exactly those fields), properties iff the map is non-empty
\* (exactly its entries); a nil profile yields no updaters
C17_ToUpdatersAttributes ==
    \A p \in ProfilesToUpdate : \A order \in Orders(DOMAIN p.Properties) :
        (UpdateCall /\ pc # "idle" /\ call.updaters = ToUpdaters(p, order)) =>
            /\ p.isNil => call.updaters = <<>>
            /\ SentAttributes = (IF p.isNil THEN EmptyMap ELSE ExpectedAttributes(p))

\* a profile with an empty email, a nil and a non-nil scalar, a location and
\* two properties has been sent, the properties ranged over as pseudonym, points
C17_Witness ==
    \E p \in ProfilesToUpdate :
        /\ ~p.isNil /\ p.Email = ""
        /\ DOMAIN p.Pointers = {"phone_number"}
        /\ DOMAIN p.Location = {"city"}
        /\ DOMAIN p.Properties = {"pseudonym", "points"}
        /\ UpdateCall /\ pc = "transport"
        /\ call.updaters = ToUpdaters(p, <<"pseudonym", "points">>)
        /\ DOMAIN SentAttributes = {"phone_number", "location", "properties"}

(***************************************************************************)
(* C18: the request of CreateOrUpdateProfile.                              *)
(***************************************************************************)
UpsertCall == pc # "idle" /\ call.method = "CreateOrUpdateProfile"
\* the attributes the call's units compose: per written key, the last unit's value
ComposedAttributes ==
    [k \in WrittenKeys |->
        IF k \in {"location", "properties"} THEN ObjectValue(Supplied(LastUnit(k)))
        ELSE StringValue(LastUnit(k).v)]

C18_WithID_Reached ==
    /\ UpsertCall
    /\ call.profileID # <<"">>
    /\ req.Body.json.data["id"] = call.profileID

(***************************************************************************)
(* C19: several query parameters in one call.                              *)
(***************************************************************************)
\* the parameters of the call that write fields[profile]: WithFields with a
\* non-empty joined value
FieldsWriters ==
    {i \in ParamIndexes({"WithFields"}) :
        JoinLeft(call.params[i].fieldName, Len(call.params[i].fieldName)) # ""}
\* the text parameter i writes under its key
WrittenValue(i) ==
    LET a == call.params[i]
    IN  CASE a.fn = "WithPageSize" ->
                 Itoa(IF a.pageSize < 1 THEN 1 ELSE IF a.pageSize > 100 THEN 100 ELSE a.pageSize)
          [] a.fn = "WithDefaultPageSize" -> "20"
          [] OTHER -> JoinLeft(a.fieldName, Len(a.fieldName))
\* key is absent when no parameter of writers exists, and else holds once
\* what the last of them writes
LastWriteWins(key, writers) ==
    IF writers = {} THEN QueryAbsent(key)
    ELSE QueryIs(key, WrittenValue(CHOOSE i \in writers : \A j \in writers : j <= i))

\* C19: the parameters of GetProfiles and GetEvents are applied in order to
\* one query collection: each key ends with the single value its last writer
\* wrote, whatever the parameters of the other key, and no other key appears
C19_LastWriteWins ==
    ListCall =>
        /\ LastWriteWins("page[size]", ParamIndexes(PageSizeFns))
        /\ LastWriteWins("fields[profile]", FieldsWriters)
        /\ \A i \in 1..Len(req.RawQuery) : req.RawQuery[i].key \in {"page[size]", "fields[profile]"}

\* two page sizes around a field list: the later size and the list are sent
C19_Witness ==
    /\ ListCall
    /\ call.params = <<PageSizeArg(3), FieldsArg(<<"email", "phone_number">>), PageSizeArg(0)>>
    /\ QueryIs("page[size]", "1")
    /\ QueryIs("fields[profile]", "email,phone_number")
    /\ Len(req.RawQuery) = 2

(***************************************************************************)
(* C20: a non-2xx response with several error objects.                     *)
(***************************************************************************)
\* doReq was handed a non-2xx response whose errors list has several
\* elements, the first of them an object
SeveralErrors ==
    /\ HasFirstError
    /\ (AnsweredStatus < 200 \/ AnsweredStatus >= 300)
    /\ Len(doRes.resp.Body.errors) > 1
\* the error object matches a row of the translation table
MatchesRow(o) ==
    \/ o.Status = 409 /\ o.Code = "duplicate_profile"
    \/ o.Status = 404 /\ o.Code = "not_found"
    \/ o.Status = 401 /\ o.Code \in AuthCodes
\* the errors met by unwrapping err step by step
Unwrapped(err) == IF err.type = "multierror.chain" THEN err.errs ELSE <<err>>

C20_FirstMatches_Reached ==
    /\ SeveralErrors
    /\ FirstError.Status = 404 /\ FirstError.Code = "not_found"
    /\ ~doRes.resp.Body.errors[2].isNil
    /\ IsSentinel(ret.err, ErrProfileDoesNotExist)

(***************************************************************************)
(* C21: which responses doReq takes for a success.                         *)
(***************************************************************************)
\* doReq was handed a response and read its body to the end
BodyRead == Answered /\ doRes.resp.Body.kind # "broken"
\* the errors of the translation path of lines 584-607
IsTranslated(err) ==
    \/ err.type \in {"*BadHTTPResponseError", "*APIError", "multierror.chain", "*ErrProfileAlreadyExists"}
    \/ IsSentinel(err, ErrProfileDoesNotExist)
    \/ IsSentinel(err, ErrInvalidAPIKey)

\* C21: a response is a success exactly when 200 <= status < 300.  On a
\* success a method with a result returns the body's data, or the raw decode
\* error when the body does not decode; a method without a result returns nil
\* whatever the body holds; on any other status the call returns an error of
\* the translation path beside a nil or zero result
C21_SuccessIs2xx ==
    BodyRead =>
        LET body == doRes.resp.Body
        IN  IF 200 <= AnsweredStatus /\ AnsweredStatus < 300
            THEN IF call.method = "CreateEvent" THEN ret.err.type = "nil"
                 ELSE IF body.kind = "text" THEN ret.err = SyntaxError /\ ret.result = ZeroResult
                 ELSE IF body.data = "mistyped" THEN ret.err = UnmarshalTypeError /\ ret.result = ZeroResult
                 ELSE /\ ret.err.type = "nil"
                      /\ body.data # "absent" => ret.result.data = body.data
            ELSE /\ IsTranslated(ret.err)
                 /\ ret.result = ZeroResult

\* a 299 whose body does not decode gave the raw decode error
C21_Witness ==
    /\ BodyRead
    /\ call.method = "GetProfile"
    /\ AnsweredStatus = 299
    /\ doRes.resp.Body.kind = "text"
    /\ ret.err = SyntaxError

\* a 300 with a well-formed data member gave the generic translated error
C21_Status300_Reached ==
    /\ BodyRead
    /\ AnsweredStatus = 300
    /\ doRes.resp.Body.kind = "json" /\ doRes.resp.Body.data = "job-1"
    /\ ret.err.type = "*APIError"

\* a 199 answering a method without a result gave a translated error
C21_Status199_Reached ==
    /\ BodyRead
    /\ AnsweredStatus = 199
    /\ call.method = "CreateEvent"
    /\ IsTranslated(ret.err)

(***************************************************************************)
(* C22: how often a call invokes httpClient.Do.                            *)
(***************************************************************************)
\* the call's arguments fail before a request exists: a batch of a length
\* BulkCreateOrUpdateProfiles rejects, or units that compose a nested value
\* without a JSON encoding
FailsLocally ==
    \/ /\ call.method = "BulkCreateOrUpdateProfiles"
       /\ (Len(call.profiles) = 0 \/ Len(call.profiles) > 10000)
    \/ /\ call.method \in {"UpdateProfile", "CreateOrUpdateProfile"}
       /\ \E k \in {"location", "properties"} :
             /\ UnitIndexes(k) # {}
             /\ \E name \in DOMAIN Supplied(LastUnit(k)) : Supplied(LastUnit(k))[name] = JSONUnsupported

\* C22: a call invokes httpClient.Do at most once, however many attempts the
\* transport makes: not at all when local validation or the encoding of the
\* body fails, and once otherwise
C22_DoAtMostOnce ==
    /\ doCalls <= 1
    /\ pc # "idle" => (doCalls = 0 <=> FailsLocally)
    /\ attempt > 0 => doCalls = 1

\* a call whose request the transport sent five times has returned
C22_Witness ==
    /\ pc = "done"
    /\ attempt = 1 + defaultRetryMax
    /\ doCalls = 1
    /\ ~FailsLocally

\* an update with a value json.Marshal rejects has returned without a request
C22_EncodingFails_Reached ==
    /\ pc = "done"
    /\ call.method = "UpdateProfile"
    /\ FailsLocally
    /\ doCalls = 0 /\ attempt = 0
    /\ ret.err = MarshalError

\* an empty batch has returned without a request
C22_ValidationFails_Reached ==
    /\ pc = "done"
    /\ call.method = "BulkCreateOrUpdateProfiles"
    /\ FailsLocally
    /\ doCalls = 0 /\ attempt = 0

(***************************************************************************)
(* C23: errors of the transport, and the caller's context.                 *)
(***************************************************************************)
\* C23: when httpClient.Do returns an error, the method returns that very
\* error value, neither wrapped nor translated, beside a nil or zero result;
\* and the request handed to the transport carries the caller's context
C23_TransportErrorUnchanged ==
    /\ (pc = "done" /\ doCalls > 0 /\ doRes.err.type # "nil") =>
            (ret.err = doRes.err /\ ret.result = ZeroResult)
    /\ (pc # "idle" /\ doCalls > 0) => req.Context = ctx

\* a call under a cancellable context returned the context's error as
\* httpClient.Do gave it, after an attempt that failed to connect
C23_Witness ==
    /\ pc = "done"
    /\ ctx = "context.WithCancel(parent)"
    /\ req.Context = ctx
    /\ attempt = 2
    /\ doRes.err = UrlError(ContextCanceled)
    /\ ret.err = UrlError(ContextCanceled)

\* a call returned the connection error of its last attempt
C23_ConnError_Reached ==
    /\ pc = "done"
    /\ attempt = 1 + defaultRetryMax
    /\ ret.err = UrlError(ConnError)

(***************************************************************************)
(* C24: units that write the same key.                                     *)
(***************************************************************************)
\* C24: in UpdateProfile and CreateOrUpdateProfile the units are applied in
\* the caller's order: a key two units write is sent with the later unit's
\* value, and for location and properties the later unit's mapping replaces
\* the earlier one's, so a nested key only the earlier unit wrote is not sent
C24_LaterUnitWins ==
    UpdateCall =>
        \A k \in WrittenKeys :
            /\ k \in DOMAIN SentAttributes
            /\ IF k \in {"location", "properties"}
               THEN /\ SentAttributes[k].kind = "object"
                    /\ DOMAIN SentAttributes[k].m = DOMAIN Supplied(LastUnit(k))
                    /\ \A name \in DOMAIN SentAttributes[k].m :
                          SentAttributes[k].m[name] = Supplied(LastUnit(k))[name]
                    /\ \A i \in UnitIndexes(k) : \A j \in 1..Len(call.updaters[i].subs) :
                          LET name == call.updaters[i].subs[j].key
                          IN  name \notin DOMAIN Supplied(LastUnit(k)) => name \notin DOMAIN SentAttributes[k].m
               ELSE SentAttributes[k] = StringValue(LastUnit(k).v)

\* two location units: the city and zip of the first are not sent, the
\* country of the second is
C24_Witness ==
    /\ UpdateCall
    /\ call.updaters = <<WithLocation(<<WithValue("city", "New York"), WithValue("zip", "10017")>>),
                         WithLocation(<<WithValue("country", "United States")>>)>>
    /\ DOMAIN SentAttributes["location"].m = {"country"}

\* two email units: the later, empty one is sent
C24_Scalar_Reached ==
    /\ UpdateCall
    /\ call.updaters = <<WithEmail("sarah.mason@klaviyo-demo.com"), WithEmail("")>>
    /\ SentAttributes["email"] = StringValue("")

(***************************************************************************)
(* C25: the meta member of an update payload.                              *)
(***************************************************************************)
RECURSIVE UnsetFrom(_)
\* the names the unset units from position i on append, in order
UnsetFrom(i) ==
    IF i > Len(call.updaters) THEN <<>>
    ELSE (IF call.updaters[i].fn = "UnsetProperties" THEN call.updaters[i].subs ELSE <<>>)
         \o UnsetFrom(i + 1)

\* C25: the payload of UpdateProfile and CreateOrUpdateProfile has a meta
\* member iff the units appended at least one name to the unset-list; then
\* meta.patch_properties.unset is the list of the names in the order they were
\* appended; and the attributes are what the other units compose
C25_MetaIffUnset ==
    UpdateCall =>
        LET data == req.Body.json.data
        IN  /\ ("meta" \in DOMAIN data) <=> (UnsetFrom(1) # <<>>)
            /\ "meta" \in DOMAIN data => data["meta"].patch_properties.unset = UnsetFrom(1)
            /\ DOMAIN data \subseteq {"attributes", "type", "id", "meta"}
            /\ data["attributes"] = ComposedAttributes

\* two unset units sent their names in the order given, beside no attribute
C25_Witness ==
    /\ UpdateCall
    /\ call.updaters = <<UnsetProperties(<<"pseudonym">>), UnsetProperties(<<"skype">>)>>
    /\ req.Body.json.data["meta"].patch_properties.unset = <<"pseudonym", "skype">>
    /\ req.Body.json.data["attributes"] = EmptyMap

\* a call without unset units was sent without a meta member
C25_NoMeta_Reached ==
    /\ UpdateCall
    /\ Len(call.updaters) = 2
    /\ UnsetFrom(1) = <<>>
    /\ "meta" \notin DOMAIN req.Body.json.data

(***************************************************************************)
(* C26: the caller's event after CreateEvent.                              *)
(***************************************************************************)
CreateEventReturned == pc = "done" /\ call.method = "CreateEvent"

\* C26: after CreateEvent has returned, with or without an error, every
\* field of the caller's event, Profile and Metric included, has the value
\* it had before the call
C26_EventUnchanged ==
    CreateEventReturned => event = inititalEvent

\* what does hold: Time, Value and Properties are as before, Profile and
\* Metric hold the sub-resources built from the call's ID and metricName
C26_ProfileAndMetricWritten ==
    CreateEventReturned =>
        /\ event.Time = inititalEvent.Time
        /\ event.Value = inititalEvent.Value
        /\ event.Properties = inititalEvent.Properties
        /\ event.Profile = ProfileRequestData(call.ID)
        /\ event.Metric = MetricRequestData(call.metricName)

(***************************************************************************)
(* C27: the path a profile id gives the request.                           *)
(***************************************************************************)
ProfileRequest == pc # "idle" /\ doCalls > 0 /\ call.method \in {"GetProfile", "UpdateProfile"}

\* C27: whatever profile id GetProfile or UpdateProfile is given, the path of
\* the request lies in the profiles collection under the base path
C27_PathBeneathProfiles ==
    ProfileRequest =>
        /\ Len(req.Path) >= 2
        /\ SubSeq(req.Path, 1, 2) = <<"api", "profiles">>

\* what does hold: an id of one segment other than "", "." and ".." is the
\* one segment below the collection
C27_PlainIDBeneathProfiles ==
    (ProfileRequest /\ Len(call.profileID) = 1 /\ call.profileID[1] \notin {"", ".", ".."}) =>
        req.Path = <<"api", "profiles">> \o call.profileID

\* GetProfile("../events") was sent to the events collection
C27_OtherEndpoint_Reached ==
    /\ ProfileRequest
    /\ call.method = "GetProfile"
    /\ call.profileID = <<"..", "events">>
    /\ req.Path = <<"api", "events">>

\* UpdateProfile("../../admin") was sent outside the base path
C27_OutsideBase_Reached ==
    /\ ProfileRequest
    /\ call.method = "UpdateProfile"
    /\ call.profileID = <<"..", "..", "admin">>
    /\ req.Path = <<"admin">>

(***************************************************************************)
(* C28: a failure response whose JSON body holds no error object.          *)
(***************************************************************************)
\* the call ended on a response doReq was handed that is not a 2xx and whose
\* body decodes with an empty errors list (the member missing, null or [])
NoErrorObject ==
    /\ CallEnded
    /\ doCalls > 0
    /\ doRes.err.type = "nil"
    /\ ~doRes.resp.isNil
    /\ (doRes.resp.StatusCode < 200 \/ doRes.resp.StatusCode >= 300)
    /\ doRes.resp.Body.kind = "json"
    /\ doRes.resp.Body.errorsOK
    /\ Len(doRes.resp.Body.errors) = 0

C28_AfterRetries_Reached ==
    /\ NoErrorObject
    /\ doRes.resp.StatusCode = 500
    /\ doCalls = 1
    /\ attempt = 1 + defaultRetryMax
    /\ ret.err.Title = "Bad HTTP status"

(***************************************************************************)
(* C29: a failure response whose errors array holds a null.                *)
(***************************************************************************)
\* the call ended on a response doReq was handed that is not a 2xx and whose
\* body decodes as an error envelope
ErrorEnvelope ==
    /\ CallEnded
    /\ doCalls > 0
    /\ doRes.err.type = "nil"
    /\ ~doRes.resp.isNil
    /\ (doRes.resp.StatusCode < 200 \/ doRes.resp.StatusCode >= 300)
    /\ doRes.resp.Body.kind = "json"
    /\ doRes.resp.Body.errorsOK
NullAt(i) == i <= Len(doRes.resp.Body.errors) /\ doRes.resp.Body.errors[i].isNil

\* C29: a response that is not a 2xx and whose body decodes as an error
\* envelope, null elements in its errors array included, makes doReq return
\* an error; the call never crashes on it
C29_ErrorEnvelopeReturns ==
    ErrorEnvelope => (pc = "done" /\ ret.err.type # "nil")

\* what does hold: the envelopes whose first element is not null return an
\* error, a null behind it included
C29_NullBehindFirstReturns ==
    (ErrorEnvelope /\ ~NullAt(1)) => (pc = "done" /\ ret.err.type # "nil")

\* a 401 whose errors array is [null] has crashed the call
C29_NullFirst_Reached ==
    /\ ErrorEnvelope
    /\ doRes.resp.StatusCode = StatusUnauthorized
    /\ NullAt(1)
    /\ pc = "crashed"

\* an envelope with a null behind an error object has been returned
C29_NullSecond_Reached ==
    /\ ErrorEnvelope
    /\ ~NullAt(1)
    /\ NullAt(2)
    /\ pc = "done"
    /\ ret.err.type # "nil"

(***************************************************************************)
(* C30: a property both set and unset by the units of one call.            *)
(***************************************************************************)
\* the call's last properties unit sets the property and an unset unit, before
\* or after it, names it
SetAndUnset(name) ==
    /\ UpdateCall
    /\ name \in DOMAIN SuppliedProperties
    /\ name \in UnsetNames

C30_UnsetFirst_Reached ==
    /\ SetAndUnset("pseudonym")
    /\ call.updaters = <<UnsetProperties(<<"pseudonym">>),
                         WithProperties(<<WithValue("pseudonym", "Dr. Octopus")>>)>>
    /\ "pseudonym" \in DOMAIN req.Body.json.data["attributes"]["properties"].m
    /\ req.Body.json.data["meta"].patch_properties.unset = <<"pseudonym">>
    /\ pc = "done"
====
